---- MODULE Spec2Model ----
(***************************************************************************)
(* NYC contracting explorer: the Transactional Store Merger                *)
(* (daily_update.py) and the Cross-Reference Resolver (app.py,             *)
(* mcp_server.py) over the relational store built by build_database.py.    *)
(***************************************************************************)
EXTENDS Integers, Sequences, FiniteSets, TLC

(***************************************************************************)
(* Bounds of the model.                                                    *)
(***************************************************************************)
MaxRuns == 2         \* runs of daily_update started in one behaviour
MaxDay == 2          \* calendar days (datetime.now()) a behaviour spans
MaxSolicitations == 2 \* rows of table solicitations
MaxContracts == 2    \* rows of table contracts
MaxTransactions == 2 \* rows of table transactions
MaxVendors == 2      \* rows of table vendors the loader is given
MaxEntities == 2     \* rows of table mocs_entities
MaxNotices == 2      \* rows of table crol
MaxMatcherRuns == 2  \* runs of match_entities_to_vendors in one behaviour

\* the daily_update processes that may be in flight at once
Procs == {1, 2}

Min(a, b) == IF a <= b THEN a ELSE b
Max(a, b) == IF a >= b THEN a ELSE b

(***************************************************************************)
(* daily_update.py: the remote feed.                                       *)
(***************************************************************************)
\* the page size of one batch request (line 82)
BatchLimit == 20000

\* The total record counts the feed may report: none, one, a full page, and
\* one more than a full page.
Totals == {0, 1, BatchLimit, BatchLimit + 1}

\* The numbers of records a 200 answer to a request for n records may carry:
\* none, fewer than asked, or all of them.
AnswerSizes(n) == {0, n - 1, n}

\* Records are identified by their offset in the feed; a list of records is
\* kept as the sequence of offset intervals <<lo, hi>> it is made of.
RecordCount(recs) ==
    LET RECURSIVE Sum(_)
        Sum(i) == IF i = 0 THEN 0 ELSE (recs[i][2] - recs[i][1] + 1) + Sum(i - 1)
    IN Sum(Len(recs))

\* recs is exactly the offsets a..b, in order, each once.
Tiles(recs, a, b) ==
    IF a > b THEN recs = <<>>
    ELSE /\ Len(recs) >= 1
         /\ recs[1][1] = a
         /\ recs[Len(recs)][2] = b
         /\ \A i \in 1..(Len(recs) - 1) : recs[i + 1][1] = recs[i][2] + 1

\* some record offset is in both lists
Overlap(r1, r2) ==
    \E i \in 1..Len(r1), j \in 1..Len(r2) :
        Max(r1[i][1], r2[j][1]) <= Min(r1[i][2], r2[j][2])

\* chunk_records.extend(transactions): an empty answer adds nothing
Extend(recs, lo, n) == IF n > 0 THEN Append(recs, <<lo, lo + n - 1>>) ELSE recs

Put(f, k, v) == [x \in (DOMAIN f) \cup {k} |-> IF x = k THEN v ELSE f[x]]

VARIABLES
    \* ---- shared, on disk
    progress_file,     \* the persisted watermark of the fiscal year
    chunk_files,       \* raw batch files: path -> [recs, writer]
    parquet_files,     \* partition files: path -> [recs, writer, complete]
    day,               \* datetime.now(), as a day number
    runs_started,      \* runs started so far; a run's id
    \* ---- one daily_update process
    pc,
    progress,          \* the dict load_progress returned
    last_count,
    total_records_remote,
    start_record,
    end_record,
    current_record,
    chunk_records,
    today_str,
    requests,          \* the delta requests issued: <<offset, size>>
    outcome,           \* how the run ended
    exit_status,       \* the process's exit status
    run_id,
    pre_run            \* progress_file as the run found it

diskVars == <<progress_file, chunk_files, parquet_files, day, runs_started>>
procVars == <<pc, progress, last_count, total_records_remote, start_record,
              end_record, current_record, chunk_records, today_str, requests,
              outcome, exit_status, run_id, pre_run>>
mergerVars == <<diskVars, procVars>>

VARIABLES
    vendors,           \* table vendors, in rowid order
    solicitations,     \* table solicitations, in rowid order
    contracts,         \* table contracts, in rowid order
    transactions,      \* spending.duckdb, table transactions
    db_exists,         \* whether spending.duckdb is there
    response,          \* what the last request of the serving layer returned
    mocs_entities,     \* table mocs_entities, in rowid order
    crol,              \* table crol, in rowid order
    match_log          \* history: the table sizes each matcher run has seen

loaderVars == <<mocs_entities, crol, match_log>>

relVars ==
    <<vendors, solicitations, contracts, transactions, db_exists, response,
      loaderVars>>

NoResponse == [kind |-> "none"]

\* init_db: the tables the later sections load are created empty
LoaderInit ==
    /\ mocs_entities = <<>>
    /\ crol = <<>>
    /\ match_log = <<>>

\* load_progress: the file's content, or the defaults when it is absent
DefaultProgress ==
    [last_record_downloaded |-> 0, total_records |-> 0, chunks_completed |-> <<>>]

load_progress(file) == file

\* save_progress: the dict replaces the file's content
save_progress(p, file) == p

\* (mutant) the file is named by the first record and the record count
ChunkFilename_count(d, s, e) == <<d, s, e - s + 1>>

\* update_{today_str}_{start_record}-{end_record}
ChunkFilename(d, s, e) == <<d, s, e>>

MergerInit ==
    /\ progress_file = DefaultProgress
    /\ chunk_files = <<>>
    /\ parquet_files = <<>>
    /\ day = 1
    /\ runs_started = 0
    /\ pc = [r \in Procs |-> "idle"]
    /\ progress = [r \in Procs |-> DefaultProgress]
    /\ last_count = [r \in Procs |-> 0]
    /\ total_records_remote = [r \in Procs |-> 0]
    /\ start_record = [r \in Procs |-> 0]
    /\ end_record = [r \in Procs |-> 0]
    /\ current_record = [r \in Procs |-> 0]
    /\ chunk_records = [r \in Procs |-> <<>>]
    /\ today_str = [r \in Procs |-> 0]
    /\ requests = [r \in Procs |-> <<>>]
    /\ outcome = [r \in Procs |-> "none"]
    /\ exit_status = [r \in Procs |-> 0]
    /\ run_id = [r \in Procs |-> 0]
    /\ pre_run = [r \in Procs |-> DefaultProgress]

\* The run ends: by return (exit status 0) or by an uncaught exception (1).
Ends(r, how, status) ==
    /\ pc' = [pc EXCEPT ![r] = "done"]
    /\ outcome' = [outcome EXCEPT ![r] = how]
    /\ exit_status' = [exit_status EXCEPT ![r] = status]

\* (mutant) the run takes a lock on the fiscal year: it waits for the others
StartGuard_locked(r) == pc[r] = "idle" /\ \A q \in Procs \ {r} : pc[q] = "idle"

\* lines 24-41: a run starts whenever the process is started; no lock is
\* taken on the fiscal year
StartGuard(r) == pc[r] = "idle"

\* lines 40-43: 1. Load Local State
LoadLocalState(r) ==
    /\ StartGuard(r)
    /\ runs_started < MaxRuns
    /\ runs_started' = runs_started + 1
    /\ run_id' = [run_id EXCEPT ![r] = runs_started + 1]
    /\ pre_run' = [pre_run EXCEPT ![r] = progress_file]
    /\ progress' = [progress EXCEPT ![r] = load_progress(progress_file)]
    /\ last_count' = [last_count EXCEPT
                         ![r] = load_progress(progress_file).last_record_downloaded]
    /\ pc' = [pc EXCEPT ![r] = "check"]
    /\ outcome' = [outcome EXCEPT ![r] = "none"]
    /\ exit_status' = [exit_status EXCEPT ![r] = 0]
    /\ UNCHANGED relVars
    /\ UNCHANGED <<progress_file, chunk_files, parquet_files, day,
                   total_records_remote, start_record, end_record,
                   current_record, chunk_records, today_str, requests>>

\* lines 45-50: the count check answers non-200
CheckRemoteError(r) ==
    /\ pc[r] = "check"
    /\ Ends(r, "abort_check", 0)
    /\ UNCHANGED relVars
    /\ UNCHANGED <<diskVars, progress, last_count, total_records_remote,
                   start_record, end_record, current_record, chunk_records,
                   today_str, requests, run_id, pre_run>>

\* (mutant) only an equal total counts as nothing new
NoNewRecords_equal(total, last) == total - last = 0

\* (mutant) the comparison is strict
NoNewRecords_strict(total, last) == total - last < 0

\* lines 56-58: new_records_count <= 0
NoNewRecords(total, last) == total - last <= 0

\* lines 52-60: the count check answers 200 and there is nothing new
CheckRemoteNoDelta(r) ==
    /\ pc[r] = "check"
    /\ \E t \in Totals :
        /\ NoNewRecords(t, last_count[r])
        /\ total_records_remote' = [total_records_remote EXCEPT ![r] = t]
    /\ Ends(r, "noop", 0)
    /\ UNCHANGED relVars
    /\ UNCHANGED <<diskVars, progress, last_count, start_record, end_record,
                   current_record, chunk_records, today_str, requests, run_id,
                   pre_run>>

\* lines 52-78: the count check answers 200 and there is a delta
CheckRemoteDelta(r) ==
    /\ pc[r] = "check"
    /\ \E t \in Totals :
        /\ ~NoNewRecords(t, last_count[r])
        /\ total_records_remote' = [total_records_remote EXCEPT ![r] = t]
        /\ end_record' = [end_record EXCEPT ![r] = t]
    /\ start_record' = [start_record EXCEPT ![r] = last_count[r] + 1]
    /\ current_record' = [current_record EXCEPT ![r] = last_count[r] + 1]
    /\ chunk_records' = [chunk_records EXCEPT ![r] = <<>>]
    /\ pc' = [pc EXCEPT ![r] = "download"]
    /\ UNCHANGED relVars
    /\ UNCHANGED <<diskVars, progress, last_count, today_str, requests,
                   outcome, exit_status, run_id, pre_run>>

\* (mutant) the whole remainder of the delta is asked for in one request
batch_size_remainder(r) == end_record[r] - current_record[r] + 1

\* line 82
batch_size(r) == Min(BatchLimit, end_record[r] - current_record[r] + 1)

\* lines 81-94, one pass of the loop whose batch answers 200 with n records
FetchBatch(r) ==
    /\ pc[r] = "download"
    /\ current_record[r] <= end_record[r]
    /\ \E n \in AnswerSizes(batch_size(r)) :
        chunk_records' = [chunk_records EXCEPT
                             ![r] = Extend(@, current_record[r], n)]
    /\ requests' = [requests EXCEPT
                       ![r] = Append(@, <<current_record[r], batch_size(r)>>)]
    /\ current_record' = [current_record EXCEPT ![r] = @ + batch_size(r)]
    /\ UNCHANGED relVars
    /\ UNCHANGED <<diskVars, pc, progress, last_count, total_records_remote,
                   start_record, end_record, today_str, outcome, exit_status,
                   run_id, pre_run>>

\* (mutant) the failed batch returns after saving what was downloaded so far
FetchBatchError_partial(r) ==
    /\ pc[r] = "download"
    /\ current_record[r] <= end_record[r]
    /\ requests' = [requests EXCEPT
                       ![r] = Append(@, <<current_record[r], batch_size(r)>>)]
    /\ progress_file' = [progress_file EXCEPT
                             !.last_record_downloaded = current_record[r] - 1]
    /\ Ends(r, "abort_batch", 0)
    /\ UNCHANGED relVars
    /\ UNCHANGED <<chunk_files, parquet_files, day, runs_started, progress,
                   last_count, total_records_remote, start_record, end_record,
                   current_record, chunk_records, today_str, run_id, pre_run>>

\* lines 81-93, a pass of the loop whose batch answers non-200
FetchBatchError(r) ==
    /\ pc[r] = "download"
    /\ current_record[r] <= end_record[r]
    /\ requests' = [requests EXCEPT
                       ![r] = Append(@, <<current_record[r], batch_size(r)>>)]
    /\ Ends(r, "abort_batch", 0)
    /\ UNCHANGED relVars
    /\ UNCHANGED <<diskVars, progress, last_count, total_records_remote,
                   start_record, end_record, current_record, chunk_records,
                   today_str, run_id, pre_run>>

\* line 81: the loop condition fails, the loop is left
DownloadDone(r) ==
    /\ pc[r] = "download"
    /\ ~(current_record[r] <= end_record[r])
    /\ pc' = [pc EXCEPT ![r] = "save_csv"]
    /\ UNCHANGED relVars
    /\ UNCHANGED <<diskVars, progress, last_count, total_records_remote,
                   start_record, end_record, current_record, chunk_records,
                   today_str, requests, outcome, exit_status, run_id, pre_run>>

\* (mutant) the state is updated as soon as the raw file is written
SaveRawCsv_commits(r) ==
    /\ pc[r] = "save_csv"
    /\ \E now \in day..MaxDay :
        /\ day' = now
        /\ today_str' = [today_str EXCEPT ![r] = now]
        /\ chunk_files' = Put(chunk_files,
                              ChunkFilename(now, start_record[r], end_record[r]),
                              [recs |-> chunk_records[r], writer |-> run_id[r]])
        /\ progress_file' =
               [progress[r] EXCEPT
                   !.last_record_downloaded = end_record[r],
                   !.total_records = total_records_remote[r],
                   !.chunks_completed =
                       Append(@, ChunkFilename(now, start_record[r], end_record[r]))]
    /\ pc' = [pc EXCEPT ![r] = "convert"]
    /\ UNCHANGED relVars
    /\ UNCHANGED <<parquet_files, runs_started, progress,
                   last_count, total_records_remote, start_record, end_record,
                   current_record, chunk_records, requests, outcome,
                   exit_status, run_id, pre_run>>

\* lines 96-107: 5. Save Raw CSV; datetime.now() is read (the clock never
\* runs backwards) and open(chunk_path, 'w') replaces the file
SaveRawCsv(r) ==
    /\ pc[r] = "save_csv"
    /\ \E now \in day..MaxDay :
        /\ day' = now
        /\ today_str' = [today_str EXCEPT ![r] = now]
        /\ chunk_files' = Put(chunk_files,
                              ChunkFilename(now, start_record[r], end_record[r]),
                              [recs |-> chunk_records[r], writer |-> run_id[r]])
    /\ pc' = [pc EXCEPT ![r] = "convert"]
    /\ UNCHANGED relVars
    /\ UNCHANGED <<progress_file, parquet_files, runs_started, progress,
                   last_count, total_records_remote, start_record, end_record,
                   current_record, chunk_records, requests, outcome,
                   exit_status, run_id, pre_run>>

\* chunk_path and parquet_path differ in the directory and the suffix only
chunk_path(r) == ChunkFilename(today_str[r], start_record[r], end_record[r])
parquet_path(r) == ChunkFilename(today_str[r], start_record[r], end_record[r])

\* lines 113-118: COPY ... TO parquet_path opens the target and writes to it;
\* until the statement returns the file is there and incomplete
ConvertBegin(r) ==
    /\ pc[r] = "convert"
    /\ parquet_files' = Put(parquet_files, parquet_path(r),
                            [recs |-> <<>>, writer |-> run_id[r],
                             complete |-> FALSE])
    /\ pc' = [pc EXCEPT ![r] = "converting"]
    /\ UNCHANGED relVars
    /\ UNCHANGED <<progress_file, chunk_files, day, runs_started, progress,
                   last_count, total_records_remote, start_record, end_record,
                   current_record, chunk_records, today_str, requests, outcome,
                   exit_status, run_id, pre_run>>

\* lines 113-119: the statement returns; the partition holds the rows of the
\* raw file at chunk_path
ConvertEnd(r) ==
    /\ pc[r] = "converting"
    /\ parquet_files' = Put(parquet_files, parquet_path(r),
                            [recs |-> chunk_files[chunk_path(r)].recs,
                             writer |-> run_id[r], complete |-> TRUE])
    /\ pc' = [pc EXCEPT ![r] = "commit"]
    /\ UNCHANGED relVars
    /\ UNCHANGED <<progress_file, chunk_files, day, runs_started, progress,
                   last_count, total_records_remote, start_record, end_record,
                   current_record, chunk_records, today_str, requests, outcome,
                   exit_status, run_id, pre_run>>

\* line 118: con.execute raises, before or while it writes the target
ConvertFails(r) ==
    /\ pc[r] \in {"convert", "converting"}
    /\ Ends(r, "abort_convert", 1)
    /\ UNCHANGED relVars
    /\ UNCHANGED <<diskVars, progress, last_count, total_records_remote,
                   start_record, end_record, current_record, chunk_records,
                   today_str, requests, run_id, pre_run>>

\* (mutant) the list of batch files is started anew
UpdatedProgress_fresh(r) ==
    [progress[r] EXCEPT
        !.last_record_downloaded = end_record[r],
        !.total_records = total_records_remote[r],
        !.chunks_completed = <<chunk_path(r)>>]

\* lines 121-124: the dict loaded at the start of the run, updated
UpdatedProgress(r) ==
    [progress[r] EXCEPT
        !.last_record_downloaded = end_record[r],
        !.total_records = total_records_remote[r],
        !.chunks_completed = Append(@, chunk_path(r))]

\* lines 121-127: 7. Update State
UpdateState(r) ==
    /\ pc[r] = "commit"
    /\ progress' = [progress EXCEPT ![r] = UpdatedProgress(r)]
    /\ progress_file' = save_progress(UpdatedProgress(r), progress_file)
    /\ Ends(r, "committed", 0)
    /\ UNCHANGED relVars
    /\ UNCHANGED <<chunk_files, parquet_files, day, runs_started, last_count,
                   total_records_remote, start_record, end_record,
                   current_record, chunk_records, today_str, requests, run_id,
                   pre_run>>

\* line 125: save_progress raises; the file is written whole or not at all
UpdateStateFails(r) ==
    /\ pc[r] = "commit"
    /\ progress' = [progress EXCEPT ![r] = UpdatedProgress(r)]
    /\ Ends(r, "abort_save", 1)
    /\ UNCHANGED relVars
    /\ UNCHANGED <<diskVars, last_count, total_records_remote, start_record,
                   end_record, current_record, chunk_records, today_str,
                   requests, run_id, pre_run>>

\* lines 131-132: the process exits; the scheduler may start it again
Exit(r) ==
    /\ pc[r] = "done"
    /\ pc' = [pc EXCEPT ![r] = "idle"]
    /\ progress' = [progress EXCEPT ![r] = DefaultProgress]
    /\ last_count' = [last_count EXCEPT ![r] = 0]
    /\ total_records_remote' = [total_records_remote EXCEPT ![r] = 0]
    /\ start_record' = [start_record EXCEPT ![r] = 0]
    /\ end_record' = [end_record EXCEPT ![r] = 0]
    /\ current_record' = [current_record EXCEPT ![r] = 0]
    /\ chunk_records' = [chunk_records EXCEPT ![r] = <<>>]
    /\ today_str' = [today_str EXCEPT ![r] = 0]
    /\ requests' = [requests EXCEPT ![r] = <<>>]
    /\ outcome' = [outcome EXCEPT ![r] = "none"]
    /\ exit_status' = [exit_status EXCEPT ![r] = 0]
    /\ run_id' = [run_id EXCEPT ![r] = 0]
    /\ pre_run' = [pre_run EXCEPT ![r] = DefaultProgress]
    /\ UNCHANGED relVars
    /\ UNCHANGED diskVars

(***************************************************************************)
(* Strings. A string is a sequence of one-character strings; Python's None *)
(* is a value of its own.                                                  *)
(***************************************************************************)
None == <<"(None)">>

\* Python truthiness of an optional string: None and '' are falsy
Truthy(x) == x # None /\ x # <<>>

UpperLetters ==
    {"A", "B", "C", "D", "E", "F", "G", "H", "I", "J", "K", "L", "M", "N",
    "O", "P", "Q", "R", "S", "T", "U", "V", "W", "X", "Y", "Z"}
Digits == {"0", "1", "2", "3", "4", "5", "6", "7", "8", "9"}
UpperOf ==
    [a |-> "A", b |-> "B", c |-> "C", d |-> "D", e |-> "E", f |-> "F",
     g |-> "G", h |-> "H", i |-> "I", j |-> "J", k |-> "K", l |-> "L",
     m |-> "M", n |-> "N", o |-> "O", p |-> "P", q |-> "Q", r |-> "R",
     s |-> "S", t |-> "T", u |-> "U", v |-> "V", w |-> "W", x |-> "X",
     y |-> "Y", z |-> "Z"]

\* str.upper(), one character
Upper(ch) == IF ch \in DOMAIN UpperOf THEN UpperOf[ch] ELSE ch

\* str.upper()
UpperStr(str) == [i \in 1..Len(str) |-> Upper(str[i])]

\* the code points of the characters the model uses
Ord(ch) ==
    CASE ch = " " -> 32 [] ch = "%" -> 37 [] ch = "-" -> 45
    [] ch = "/" -> 47 [] ch = "0" -> 48 [] ch = "1" -> 49
    [] ch = "2" -> 50 [] ch = "3" -> 51 [] ch = "4" -> 52
    [] ch = "5" -> 53 [] ch = "6" -> 54 [] ch = "7" -> 55
    [] ch = "8" -> 56 [] ch = "9" -> 57 [] ch = "A" -> 65
    [] ch = "B" -> 66 [] ch = "C" -> 67 [] ch = "D" -> 68
    [] ch = "E" -> 69 [] ch = "F" -> 70 [] ch = "G" -> 71
    [] ch = "H" -> 72 [] ch = "I" -> 73 [] ch = "J" -> 74
    [] ch = "K" -> 75 [] ch = "L" -> 76 [] ch = "M" -> 77
    [] ch = "N" -> 78 [] ch = "O" -> 79 [] ch = "P" -> 80
    [] ch = "Q" -> 81 [] ch = "R" -> 82 [] ch = "S" -> 83
    [] ch = "T" -> 84 [] ch = "U" -> 85 [] ch = "V" -> 86
    [] ch = "W" -> 87 [] ch = "X" -> 88 [] ch = "Y" -> 89
    [] ch = "Z" -> 90 [] ch = "_" -> 95 [] ch = "a" -> 97
    [] ch = "b" -> 98 [] ch = "c" -> 99 [] ch = "d" -> 100
    [] ch = "e" -> 101 [] ch = "f" -> 102 [] ch = "g" -> 103
    [] ch = "h" -> 104 [] ch = "i" -> 105 [] ch = "j" -> 106
    [] ch = "k" -> 107 [] ch = "l" -> 108 [] ch = "m" -> 109
    [] ch = "n" -> 110 [] ch = "o" -> 111 [] ch = "p" -> 112
    [] ch = "q" -> 113 [] ch = "r" -> 114 [] ch = "s" -> 115
    [] ch = "t" -> 116 [] ch = "u" -> 117 [] ch = "v" -> 118
    [] ch = "w" -> 119 [] ch = "x" -> 120 [] ch = "y" -> 121
    [] ch = "z" -> 122 [] OTHER -> 0

\* a < b for Python strings
RECURSIVE StrLess(_, _)
StrLess(a, b) ==
    IF b = <<>> THEN FALSE
    ELSE IF a = <<>> THEN TRUE
    ELSE IF Ord(Head(a)) # Ord(Head(b)) THEN Ord(Head(a)) < Ord(Head(b))
    ELSE StrLess(Tail(a), Tail(b))

\* s[:n]
Prefix(str, n) == SubSeq(str, 1, Min(n, Len(str)))

\* str.startswith(pre)
StartsWith(str, pre) ==
    Len(pre) <= Len(str) /\ SubSeq(str, 1, Len(pre)) = pre

\* sub in str
Contains(str, sub) ==
    \E k \in 0..(Len(str) - Len(sub)) : SubSeq(str, k + 1, k + Len(sub)) = sub

\* str.replace(ch, "")
Without(str, chars) == SelectSeq(str, LAMBDA ch : ch \notin chars)

(***************************************************************************)
(* build_database.py: the canonicalizers and the relational store.         *)
(***************************************************************************)
\* re.sub(r'[^A-Z0-9]', '', s.upper())
StripNonAlnum(str) ==
    SelectSeq(UpperStr(str), LAMBDA ch : ch \in UpperLetters \cup Digits)

normalize_contract_id(cid) == IF ~Truthy(cid) THEN None ELSE StripNonAlnum(cid)

normalize_epin(epin) == IF ~Truthy(epin) THEN None ELSE StripNonAlnum(epin)

\* two vendors, as load_vendors stores them (lines 278-302)
NameAcme == <<"A", "C", "M", "E">>
NameBolt == <<"B", "O", "L", "T">>
VendorRows ==
    << [passport_supplier_id |-> "V1", name |-> NameAcme],
       [passport_supplier_id |-> "V2", name |-> NameBolt] >>

RelationalInit ==
    /\ vendors = VendorRows
    /\ solicitations = <<>>
    /\ contracts = <<>>
    /\ transactions = {}
    /\ db_exists = TRUE
    /\ response = NoResponse
    /\ LoaderInit

\* INSERT OR IGNORE INTO solicitations: epin is the PRIMARY KEY, and a NULL
\* key conflicts with nothing
RECURSIVE InsertSolicitations(_, _)
InsertSolicitations(table, rows) ==
    IF rows = <<>> THEN table
    ELSE LET row == Head(rows)
             dup == row.epin # None
                    /\ \E i \in 1..Len(table) : table[i].epin = row.epin
         IN InsertSolicitations(IF dup THEN table ELSE Append(table, row),
                                Tail(rows))

\* lines 304-343: one extract (the EPIN column of each row) is loaded
SolicitationRows(extract) ==
    [i \in 1..Len(extract) |->
        [epin |-> extract[i], normalized_epin |-> normalize_epin(extract[i])]]

\* lines 345-389: one extract is loaded; contracts has no key, every row is
\* inserted
ContractRows(extract) ==
    [i \in 1..Len(extract) |->
        [epin |-> extract[i].epin,
         contract_id |-> extract[i].contract_id,
         vendor_name |-> extract[i].vendor_name,
         start_date |-> extract[i].start_date,
         end_date |-> extract[i].end_date,
         normalized_contract_id |-> normalize_contract_id(extract[i].contract_id),
         normalized_epin |-> normalize_epin(extract[i].epin)]]

\* lines 304-343: load_solicitations, for one extract
load_solicitations(extract) ==
    /\ Len(solicitations) + Len(extract) <= MaxSolicitations
    /\ solicitations' = InsertSolicitations(solicitations, SolicitationRows(extract))
    /\ response' = NoResponse
    /\ UNCHANGED <<vendors, contracts, transactions, db_exists, mergerVars, loaderVars>>

\* lines 345-389: load_contracts, for one extract
load_contracts(extract) ==
    /\ Len(contracts) + Len(extract) <= MaxContracts
    /\ contracts' = contracts \o ContractRows(extract)
    /\ response' = NoResponse
    /\ UNCHANGED <<vendors, solicitations, transactions, db_exists, mergerVars, loaderVars>>

(***************************************************************************)
(* app.py, mcp_server.py: contracts and solicitations.                     *)
(***************************************************************************)
\* query_db(..., one=True) of SELECT * FROM solicitations WHERE
\* normalized_epin = ?: the first row in rowid order, 0 for None
FirstSolicitation(key) ==
    LET hits == {i \in 1..Len(solicitations) :
                    /\ solicitations[i].normalized_epin # None
                    /\ solicitations[i].normalized_epin = key}
    IN IF hits = {} THEN 0 ELSE CHOOSE i \in hits : \A j \in hits : i <= j

\* (mutant) the retry is made for ten characters too
NeedsFallback_ge(solicitation, epin) == solicitation = 0 /\ Len(epin) >= 10

\* line 1404: not solicitation and len(contract['normalized_epin']) > 10
NeedsFallback(solicitation, epin) == solicitation = 0 /\ Len(epin) > 10

\* (mutant) the value has to be longer than the prefix
LikePrefix_longer(value, prefix) ==
    /\ value # None
    /\ Len(prefix) < Len(value)
    /\ \A i \in 1..Len(prefix) :
          prefix[i] = "_" \/ Upper(value[i]) = Upper(prefix[i])

\* X LIKE prefix || '%' in SQLite: NULL matches nothing, ASCII letters match
\* in either case, '_' in the pattern matches any one character
LikePrefix(value, prefix) ==
    /\ value # None
    /\ Len(prefix) <= Len(value)
    /\ \A i \in 1..Len(prefix) :
          prefix[i] = "_" \/ Upper(value[i]) = Upper(prefix[i])

\* (mutant) the contracts are matched by equality
ContractsLike_equal(prefix) ==
    SelectSeq([i \in 1..Len(contracts) |-> i],
              LAMBDA i : contracts[i].normalized_epin = prefix)

\* SELECT * FROM contracts WHERE normalized_epin LIKE ? with prefix || '%':
\* the rows, in rowid order
ContractsLike(prefix) ==
    SelectSeq([i \in 1..Len(contracts) |-> i],
              LAMBDA i : LikePrefix(contracts[i].normalized_epin, prefix))

\* lines 1396-1407: Linked Solicitation
LinkedSolicitation(contract) ==
    IF ~Truthy(contract.normalized_epin)
    THEN [solicitation |-> 0, queries |-> <<>>]
    ELSE LET exact == FirstSolicitation(contract.normalized_epin)
         IN IF NeedsFallback(exact, contract.normalized_epin)
            THEN LET base_epin == Prefix(contract.normalized_epin, 10)
                 IN [solicitation |-> FirstSolicitation(base_epin),
                     queries |-> <<contract.normalized_epin, base_epin>>]
            ELSE [solicitation |-> exact,
                  queries |-> <<contract.normalized_epin>>]

\* lines 1396-1413: contract_detail, for the contract the lookup by ctr_id
\* found
contract_detail(i) ==
    /\ i \in 1..Len(contracts)
    /\ LET link == LinkedSolicitation(contracts[i])
       IN response' =
            [kind |-> "contract_detail",
             status |-> 200,
             contract |-> i,
             solicitation |-> link.solicitation,
             queries |-> link.queries,
             solicitation_contract_count |->
                 IF link.solicitation = 0 THEN 0
                 ELSE Len(ContractsLike(
                          solicitations[link.solicitation].normalized_epin))]
    /\ UNCHANGED <<vendors, solicitations, contracts, transactions, db_exists, mergerVars, loaderVars>>

\* app.py lines 1592-1605 (solicitation_detail) and mcp_server.py lines
\* 620-650 (get_solicitation_details): the solicitation whose epin is id and
\* its resulting contracts; None + '%' raises
solicitation_detail(id) ==
    /\ LET hits == {j \in 1..Len(solicitations) : solicitations[j].epin = id}
       IN IF hits = {}
          THEN response' = [kind |-> "solicitation_detail", status |-> 404]
          ELSE LET j == CHOOSE k \in hits : TRUE
               IN IF solicitations[j].normalized_epin = None
                  THEN response' = [kind |-> "solicitation_detail",
                                    status |-> 500]
                  ELSE response' =
                         [kind |-> "solicitation_detail",
                          status |-> 200,
                          solicitation |-> j,
                          contracts |->
                              ContractsLike(solicitations[j].normalized_epin)]
    /\ UNCHANGED <<vendors, solicitations, contracts, transactions, db_exists, mergerVars, loaderVars>>

\* The EPINs of the extracts: the documented example (ABC123XYZ9 and its
\* contracts ...001, ...002), the same key in another spelling, a nine and a
\* thirteen character solicitation, an unrelated key and an empty cell.
EpinBase == <<"A", "B", "C", "1", "2", "3", "X", "Y", "Z", "9">>
EpinOther == <<"Z", "Z", "Z", "0", "0", "0">>
SolicitationEpins ==
    { EpinBase,
      <<"a", "b", "c", "-", "1", "2", "3", "-", "x", "y", "z", "9">>,
      EpinBase \o <<"0", "0", "1">>,
      SubSeq(EpinBase, 1, 9),
      EpinOther,
      <<>> }
ContractEpins ==
    { EpinBase \o <<"0", "0", "1">>,
      <<"A", "B", "C", "-", "1", "2", "3", "-", "X", "Y", "Z", "9", "-",
        "0", "0", "2">>,
      EpinBase,
      EpinOther,
      None }

SeqsUpTo(S, n) == UNION {[1..k -> S] : k \in 1..n}

\* a row of contracts_data.csv of which only the EPIN matters
EpinRow(e) ==
    [epin |-> e, contract_id |-> None, vendor_name |-> None,
     start_date |-> None, end_date |-> None]

(***************************************************************************)
(* app.py: vendor_detail, the merge of the relational contracts of a       *)
(* vendor with the contract ids of its transactions.                       *)
(***************************************************************************)
\* (mutant) the case is kept
normalize_for_match_cased(cid) ==
    IF ~Truthy(cid) THEN <<>> ELSE Without(cid, {"-", " "})

\* lines 838-840
normalize_for_match(cid) ==
    IF ~Truthy(cid) THEN <<>> ELSE UpperStr(Without(cid, {"-", " "}))

\* line 698: SELECT * FROM contracts WHERE vendor_name = ?, as rowids
VendorContracts(name) ==
    SelectSeq([i \in 1..Len(contracts) |-> i],
              LAMBDA i : contracts[i].vendor_name # None
                         /\ contracts[i].vendor_name = name)

\* lines 842-856: the keys of mocs_contract_map, in insertion order
RECURSIVE MocsKeys(_, _)
MocsKeys(rows, keys) ==
    IF rows = <<>> THEN keys
    ELSE LET nid == normalize_for_match(contracts[Head(rows)].contract_id)
         IN MocsKeys(Tail(rows),
                     IF nid # <<>> /\ \A k \in 1..Len(keys) : keys[k] # nid
                     THEN Append(keys, nid) ELSE keys)

\* (mutant) only the equal key is looked for
MatchedKeys_exact(nid, keys) ==
    IF \E k \in 1..Len(keys) : keys[k] = nid THEN {nid} ELSE {}

\* lines 878-890: the keys of mocs_contract_map whose contracts one
\* transaction-side id upgrades: the equal key, else the first key, in
\* insertion order, that contains it or that it contains
MatchedKeys(nid, keys) ==
    IF \E k \in 1..Len(keys) : keys[k] = nid THEN {nid}
    ELSE LET partial == {k \in 1..Len(keys) :
                            Contains(keys[k], nid) \/ Contains(nid, keys[k])}
         IN IF partial = {} THEN {}
            ELSE {keys[CHOOSE k \in partial : \A j \in partial : k <= j]}

\* lines 898-906: min(issue_date) of the transactions of a contract id
MinIssueDate(cid) ==
    LET dates == {t.issue_date : t \in {u \in transactions :
                                           u.contract_id = cid
                                           /\ u.issue_date # None}}
    IN IF dates = {} THEN None
       ELSE CHOOSE d \in dates : \A e \in dates : d = e \/ StrLess(d, e)

\* lines 868-918: the loop over cb_rows; upgraded is the set of keys whose
\* contracts were tagged 'MOCS & Checkbook', checkbook_contracts the
\* synthetic records
RECURSIVE MergeLoop(_, _, _, _)
MergeLoop(cb_rows, keys, upgraded, checkbook_contracts) ==
    IF cb_rows = <<>>
    THEN [upgraded |-> upgraded, checkbook_contracts |-> checkbook_contracts]
    ELSE LET cb_cid == Head(cb_rows)
             hit == MatchedKeys(normalize_for_match(cb_cid), keys)
         IN IF ~Truthy(cb_cid)
            THEN MergeLoop(Tail(cb_rows), keys, upgraded, checkbook_contracts)
            ELSE IF hit # {}
            THEN MergeLoop(Tail(cb_rows), keys, upgraded \cup hit,
                           checkbook_contracts)
            ELSE MergeLoop(Tail(cb_rows), keys, upgraded,
                           Append(checkbook_contracts,
                                  [row |-> 0,
                                   contract_id |-> cb_cid,
                                   start_date |-> MinIssueDate(cb_cid),
                                   source |-> "Checkbook"]))

\* line 928: str(x.get('start_date') or '0000')
SortKey(rec) == IF Truthy(rec.start_date) THEN rec.start_date
                ELSE <<"0", "0", "0", "0">>

\* line 928: list.sort(key=..., reverse=True), which is stable
SortByStartDateDesc(list) ==
    LET Before(i, j) == \/ StrLess(SortKey(list[j]), SortKey(list[i]))
                        \/ SortKey(list[i]) = SortKey(list[j]) /\ i < j
        Rank(i) == 1 + Cardinality({j \in 1..Len(list) : Before(j, i)})
    IN [k \in 1..Len(list) |->
           list[CHOOSE i \in 1..Len(list) : Rank(i) = k]]

\* lines 847-850 and 933: the relational contracts, each tagged
RelationalList(rows, keys, upgraded) ==
    [k \in 1..Len(rows) |->
        [row |-> rows[k],
         contract_id |-> contracts[rows[k]].contract_id,
         start_date |-> contracts[rows[k]].start_date,
         source |-> IF normalize_for_match(contracts[rows[k]].contract_id)
                          \in upgraded
                    THEN "MOCS & Checkbook" ELSE "MOCS"]]

\* lines 698 and 859-861 when spending.duckdb is not there: the rows as the
\* query returned them, with no source attribute
UntaggedList(rows) ==
    [k \in 1..Len(rows) |->
        [row |-> rows[k],
         contract_id |-> contracts[rows[k]].contract_id,
         start_date |-> contracts[rows[k]].start_date,
         source |-> None]]

\* (mutant) the fallback keeps the list the merge was working on
DegradedList_leftover(rows, keys, partial) ==
    RelationalList(rows, keys, partial.upgraded) \o partial.checkbook_contracts

\* lines 930-933: the fallback when the merge raised after partial had been
\* done: the rows the relational query returned, each tagged 'MOCS'
DegradedList(rows, keys, partial) == RelationalList(rows, keys, {})

\* line 866: SELECT DISTINCT contract_id FROM transactions WHERE
\* payee_name = ?
CheckbookIds(name) ==
    {t.contract_id : t \in {u \in transactions : u.payee_name = name}}

\* the orders in which a query may return a set of rows
Orders(S) ==
    {seq \in [1..Cardinality(S) -> S] : \A x \in S : \E i \in DOMAIN seq : seq[i] = x}

\* lines 693-698 and 836-933: vendor_detail, the merge of the contracts;
\* raises tells whether a call on spending.duckdb raises, which it may do
\* at the connection or after some of the transaction-side ids were merged
vendor_detail(id, raises) ==
    /\ \E v \in 1..Len(vendors) : vendors[v].passport_supplier_id = id
    /\ LET name == vendors[CHOOSE v \in 1..Len(vendors) :
                              vendors[v].passport_supplier_id = id].name
           rows == VendorContracts(name)
           keys == MocsKeys(rows, <<>>)
       IN IF ~db_exists
          THEN /\ ~raises
               /\ response' = [kind |-> "vendor_detail", vendor |-> name,
                               outcome |-> "no_db", cb_rows |-> <<>>,
                               contracts |-> UntaggedList(rows)]
          ELSE IF raises
          THEN \E cb_rows \in Orders(CheckbookIds(name)) :
                  \E n \in 0..Len(cb_rows) :
                      LET done == SubSeq(cb_rows, 1, n)
                          partial == MergeLoop(done, keys, {}, <<>>)
                      IN response' =
                           [kind |-> "vendor_detail", vendor |-> name,
                            outcome |-> "degraded", cb_rows |-> done,
                            contracts |-> DegradedList(rows, keys, partial)]
          ELSE \E cb_rows \in Orders(CheckbookIds(name)) :
                  LET merged == MergeLoop(cb_rows, keys, {}, <<>>)
                  IN response' =
                       [kind |-> "vendor_detail", vendor |-> name,
                        outcome |-> "merged", cb_rows |-> cb_rows,
                        contracts |->
                            SortByStartDateDesc(
                                RelationalList(rows, keys, merged.upgraded)
                                \o merged.checkbook_contracts)]
    /\ UNCHANGED <<vendors, solicitations, contracts, transactions, db_exists,
                   mergerVars, loaderVars>>

\* The contract ids of the extracts and of the transactions: one contract in
\* three spellings (CT-1001, ct 1001, and as part of CT1001A and of CT1),
\* unrelated ids, an id of separators only, and no id.
IdCt1001 == <<"C", "T", "-", "1", "0", "0", "1">>
IdCt1001A == <<"C", "T", "1", "0", "0", "1", "A">>
IdXy9 == <<"X", "Y", "9">>
IdCt1001Lower == <<"c", "t", " ", "1", "0", "0", "1">>
IdCt1 == <<"C", "T", "1">>
IdZz7 == <<"Z", "Z", "7">>
IssueDate == <<"2", "0", "2", "4", "-", "0", "3", "-", "0", "7">>

\* a row of contracts_data.csv of which the contract id and the vendor matter
ContractIdRow(cid, name) ==
    [epin |-> None, contract_id |-> cid, vendor_name |-> name,
     start_date |-> None, end_date |-> None]

VendorContractRows ==
    {ContractIdRow(cid, NameAcme) : cid \in {IdCt1001, IdCt1001A, IdXy9, None}}
    \cup {ContractIdRow(IdCt1001, NameBolt)}

TransactionRows ==
    {[payee_name |-> NameAcme, contract_id |-> cid, issue_date |-> IssueDate] :
        cid \in {IdCt1001Lower, IdCt1, IdZz7, <<"-">>, None}}
    \cup {[payee_name |-> NameBolt, contract_id |-> IdZz7, issue_date |-> IssueDate]}

\* the sets of at most n elements of S
SubsetsUpTo(S, n) == {T \in SUBSET S : Cardinality(T) <= n}

\* The scheduler serializes the runs of a fiscal year: a run starts only when
\* no other is in flight.
NoOtherInFlight(r) == \A q \in Procs \ {r} : pc[q] = "idle"

LoadLocalStateSerialized(r) == NoOtherInFlight(r) /\ LoadLocalState(r)

Step(r) ==
    \/ CheckRemoteError(r)
    \/ CheckRemoteNoDelta(r)
    \/ CheckRemoteDelta(r)
    \/ FetchBatch(r)
    \/ FetchBatchError(r)
    \/ DownloadDone(r)
    \/ SaveRawCsv(r)
    \/ ConvertBegin(r)
    \/ ConvertEnd(r)
    \/ ConvertFails(r)
    \/ UpdateState(r)
    \/ UpdateStateFails(r)

vars == <<mergerVars, relVars>>

Init == MergerInit /\ RelationalInit

\* The process slot the scheduler uses when it runs one job at a time.
Scheduled == CHOOSE r \in Procs : TRUE

\* daily_update under the scheduler the specification requires: one run after
\* the other
NextSerialized ==
    \/ LoadLocalStateSerialized(Scheduled)
    \/ Step(Scheduled)
    \/ Exit(Scheduled)

SpecSerialized == Init /\ [][NextSerialized]_vars

\* daily_update with nothing serializing the runs: every process runs once
NextConcurrent ==
    \/ \E r \in Procs : LoadLocalState(r)
    \/ \E r \in Procs : Step(r)

SpecConcurrent == Init /\ [][NextConcurrent]_vars

\* the store is built from extracts and the serving layer resolves the links
\* between contracts and solicitations
NextLinks ==
    \/ \E extract \in SeqsUpTo(SolicitationEpins, MaxSolicitations) :
           load_solicitations(extract)
    \/ \E extract \in SeqsUpTo({EpinRow(e) : e \in ContractEpins}, MaxContracts) :
           load_contracts(extract)
    \/ \E i \in 1..MaxContracts : contract_detail(i)
    \/ \E id \in SolicitationEpins : solicitation_detail(id)

SpecLinks == Init /\ [][NextLinks]_vars

\* spending.duckdb holds some transactions, or is not there
InitVendors ==
    /\ MergerInit
    /\ vendors = VendorRows
    /\ solicitations = <<>>
    /\ contracts = <<>>
    /\ transactions \in SubsetsUpTo(TransactionRows, MaxTransactions)
    /\ db_exists \in BOOLEAN
    /\ response = NoResponse
    /\ LoaderInit

\* the store is built and the serving layer shows vendors
NextVendors ==
    \/ \E extract \in SeqsUpTo(VendorContractRows, MaxContracts) :
           load_contracts(extract)
    \/ \E id \in {"V1", "V2"}, raises \in BOOLEAN : vendor_detail(id, raises)

SpecVendors == InitVendors /\ [][NextVendors]_vars

(***************************************************************************)
(* Claims about the Transactional Store Merger.                            *)
(***************************************************************************)
InFlight == {"check", "download", "save_csv", "convert", "converting", "commit"}
PastCheck == InFlight \ {"check"}

Ended(r, how) == pc[r] = "done" /\ outcome[r] = how

\* the files run r has written
WrittenBy(r) ==
    {p \in DOMAIN chunk_files : chunk_files[p].writer = run_id[r]}
    \cup {p \in DOMAIN parquet_files : parquet_files[p].writer = run_id[r]}

\* C1: a run that ends on a non-200 answer, of the count check or of any
\* batch, leaves the persisted last_record_downloaded at its pre-run value,
\* so the next run starts its delta at the same offset.
C1_WatermarkSafety ==
    \A r \in Procs :
        (Ended(r, "abort_check") \/ Ended(r, "abort_batch")) =>
            /\ progress_file.last_record_downloaded
                   = pre_run[r].last_record_downloaded
            /\ load_progress(progress_file).last_record_downloaded + 1
                   = last_count[r] + 1

\* a run fails at its second batch, after the first one brought records
C1_Witness ==
    \E r \in Procs :
        /\ Ended(r, "abort_batch")
        /\ Len(requests[r]) = 2
        /\ chunk_records[r] # <<>>

\* C2: the watermark is persisted only after the raw file is written and its
\* conversion is complete; a run whose conversion fails leaves the persisted
\* watermark and chunks_completed as they were before the run.
C2_CommitAfterConversion ==
    \A r \in Procs :
        /\ pc[r] \in InFlight => progress_file = pre_run[r]
        /\ Ended(r, "abort_convert") =>
              /\ progress_file.last_record_downloaded
                     = pre_run[r].last_record_downloaded
              /\ progress_file.chunks_completed = pre_run[r].chunks_completed
        /\ Ended(r, "committed") =>
              /\ chunk_path(r) \in DOMAIN chunk_files
              /\ chunk_files[chunk_path(r)].writer = run_id[r]
              /\ parquet_path(r) \in DOMAIN parquet_files
              /\ parquet_files[parquet_path(r)].writer = run_id[r]
              /\ parquet_files[parquet_path(r)].complete

\* a conversion fails half way, in a run that found a watermark above zero
C2_Witness ==
    \E r \in Procs :
        /\ Ended(r, "abort_convert")
        /\ pre_run[r].last_record_downloaded > 0
        /\ parquet_path(r) \in DOMAIN parquet_files
        /\ ~parquet_files[parquet_path(r)].complete

\* C3: a run goes past the count check only when the remote total is above
\* the watermark; otherwise it ends having issued no delta request, written
\* no batch or partition file and left the persisted watermark alone.
C3_NoOpOnNoNewData ==
    \A r \in Procs :
        /\ pc[r] \in PastCheck => total_records_remote[r] > last_count[r]
        /\ (pc[r] = "done" /\ outcome[r] \notin {"abort_check", "noop"}) =>
              total_records_remote[r] > last_count[r]
        /\ Ended(r, "noop") =>
              /\ total_records_remote[r] <= last_count[r]
              /\ requests[r] = <<>>
              /\ WrittenBy(r) = {}
              /\ progress_file = pre_run[r]

\* the remote total equals a watermark above zero
C3_Witness ==
    \E r \in Procs :
        /\ Ended(r, "noop")
        /\ last_count[r] > 0
        /\ total_records_remote[r] = last_count[r]

\* C4: a committed run's batch file holds every record of the delta range
\* watermark+1 .. remote total, whatever the batches answered.
C4_FullDeltaBeforeCommit ==
    \A r \in Procs :
        Ended(r, "committed") =>
            /\ Tiles(chunk_files[chunk_path(r)].recs,
                     last_count[r] + 1, total_records_remote[r])
            /\ RecordCount(chunk_files[chunk_path(r)].recs)
                   = total_records_remote[r] - last_count[r]

\* some record offset is stored in two distinct partition files
DoubleCounted ==
    \E p1, p2 \in DOMAIN parquet_files :
        /\ p1 # p2
        /\ Overlap(parquet_files[p1].recs, parquet_files[p2].recs)

\* offset x is among the records
Stored(recs, x) == \E i \in 1..Len(recs) : recs[i][1] <= x /\ x <= recs[i][2]

\* C5: nothing in the code keeps a second run of the fiscal year from
\* starting while one is in flight, and two runs that started from the same
\* watermark and both committed, to different partition files, have stored
\* the first record of the delta twice.
C5_SerializationRequired ==
    /\ \A r \in Procs :
          (pc[r] = "idle" /\ runs_started < MaxRuns) => ENABLED LoadLocalState(r)
    /\ \A r1, r2 \in Procs :
          ( /\ r1 # r2
            /\ Ended(r1, "committed") /\ Ended(r2, "committed")
            /\ last_count[r1] = last_count[r2]
            /\ parquet_path(r1) # parquet_path(r2)
            /\ Stored(chunk_records[r1], start_record[r1])
            /\ Stored(chunk_records[r2], start_record[r2]) )
          => DoubleCounted

\* two runs were in flight together, both committed, and a record is in two
\* partition files
C5_Witness ==
    /\ \A r \in Procs : Ended(r, "committed")
    /\ \E r1, r2 \in Procs : r1 # r2 /\ last_count[r1] = last_count[r2]
    /\ DoubleCounted

\* C6: no step of any run rewrites or replaces a partition file that exists
\* (stated for the partition files that are completely written).
C6_PartitionsAppendOnly ==
    [][\A p \in DOMAIN parquet_files :
          parquet_files[p].complete =>
              /\ p \in DOMAIN parquet_files'
              /\ parquet_files'[p] = parquet_files[p]]_vars

(***************************************************************************)
(* Claims about the Cross-Reference Resolver: contracts and solicitations. *)
(***************************************************************************)
\* the canonical key of a raw identifier: uppercase, alphanumerics only
Canonical(raw) == StripNonAlnum(raw)

HasCanonicalEpin(row) == Truthy(row.epin) /\ Canonical(row.epin) # <<>>

\* the solicitations whose canonical EPIN is key
SolicitationsKeyed(key) ==
    {j \in 1..Len(solicitations) :
        Truthy(solicitations[j].epin) /\ Canonical(solicitations[j].epin) = key}

\* C7: contract_detail looks the contract's canonical EPIN up by equality
\* first; it retries, once, with the first ten characters only when that
\* found nothing and the key is longer than ten characters; what it returns
\* is one solicitation found by the exact key, else one found by the prefix,
\* else none, and never an error.
C7_ContractToSolicitation ==
    (response.kind = "contract_detail"
        /\ HasCanonicalEpin(contracts[response.contract])) =>
        LET key == Canonical(contracts[response.contract].epin)
            exact == SolicitationsKeyed(key)
            base == SolicitationsKeyed(Prefix(key, 10))
            retried == Len(response.queries) = 2
        IN /\ response.status = 200
           /\ Len(response.queries) \in {1, 2}
           /\ response.queries[1] = key
           /\ retried <=> (exact = {} /\ Len(key) > 10)
           /\ retried => response.queries[2] = SubSeq(key, 1, 10)
           /\ exact # {} => response.solicitation \in exact
           /\ (exact = {} /\ Len(key) > 10 /\ base # {}) =>
                  response.solicitation \in base
           /\ (exact = {} /\ (Len(key) <= 10 \/ base = {})) =>
                  response.solicitation = 0

\* a thirteen character contract EPIN with no exact match resolves through
\* its first ten characters
C7_Witness ==
    /\ response.kind = "contract_detail"
    /\ HasCanonicalEpin(contracts[response.contract])
    /\ Len(Canonical(contracts[response.contract].epin)) = 13
    /\ Len(response.queries) = 2
    /\ response.solicitation # 0
    /\ Canonical(solicitations[response.solicitation].epin) = EpinBase

\* the elements of a sequence
Range(seq) == {seq[i] : i \in 1..Len(seq)}

Merged == response.kind = "vendor_detail" /\ response.outcome = "merged"

\* the relational and the synthetic records of the merged list
RelationalRecords == {k \in 1..Len(response.contracts) : response.contracts[k].row # 0}
SyntheticRecords == {k \in 1..Len(response.contracts) : response.contracts[k].row = 0}

\* the transaction-side contract ids of the vendor
CheckbookSide == {cid \in Range(response.cb_rows) : Truthy(cid)}

\* an id with its hyphens and spaces removed, in upper case
Normalized(cid) ==
    IF ~Truthy(cid) THEN <<>>
    ELSE SelectSeq(UpperStr(cid), LAMBDA ch : ch # "-" /\ ch # " ")

\* the normalized ids are equal, or one contains the other
Overlapping(cb_cid, contract_id) ==
    /\ Normalized(contract_id) # <<>>
    /\ \/ Normalized(cb_cid) = Normalized(contract_id)
       \/ Contains(Normalized(cb_cid), Normalized(contract_id))
       \/ Contains(Normalized(contract_id), Normalized(cb_cid))

\* C9: in the merged list a relational contract that no transaction-side id
\* matches is tagged 'MOCS'; a transaction-side id that matches no relational
\* contract gives one synthetic record tagged 'Checkbook'; a relational
\* contract whose normalized id equals that of a transaction-side id is
\* tagged 'MOCS & Checkbook', and that id gives no synthetic record.
C9_MergeProvenance ==
    Merged =>
        /\ \A k \in RelationalRecords :
              (\A cid \in CheckbookSide :
                  ~Overlapping(cid, response.contracts[k].contract_id))
              => response.contracts[k].source = "MOCS"
        /\ \A cid \in CheckbookSide :
              (\A k \in RelationalRecords :
                  ~Overlapping(cid, response.contracts[k].contract_id))
              => /\ Cardinality({k \in SyntheticRecords :
                        response.contracts[k].contract_id = cid}) = 1
                 /\ \A k \in SyntheticRecords :
                        response.contracts[k].contract_id = cid
                        => response.contracts[k].source = "Checkbook"
        /\ \A k \in RelationalRecords, cid \in CheckbookSide :
              ( /\ Normalized(cid) # <<>>
                /\ Normalized(cid)
                       = Normalized(response.contracts[k].contract_id) )
              => /\ response.contracts[k].source = "MOCS & Checkbook"
                 /\ \A j \in SyntheticRecords :
                        response.contracts[j].contract_id # cid

\* the three cases in one merged list: CT-1001 in both sources under two
\* spellings, XY9 in the relational store only, ZZ7 in the transactions only
C9_Witness ==
    /\ Merged
    /\ \E k \in RelationalRecords :
          /\ response.contracts[k].contract_id = IdCt1001
          /\ response.contracts[k].source = "MOCS & Checkbook"
    /\ \E k \in RelationalRecords :
          /\ response.contracts[k].contract_id = IdXy9
          /\ response.contracts[k].source = "MOCS"
    /\ \E k \in SyntheticRecords :
          /\ response.contracts[k].contract_id = IdZz7
          /\ response.contracts[k].source = "Checkbook"
    /\ IdCt1001Lower \in CheckbookSide

\* C10: after the merge every relational contract whose normalized id is
\* equal to, contains or is contained in the normalized id of some
\* transaction-side id of the vendor is tagged 'MOCS & Checkbook' (stated
\* for the transaction-side ids that are not empty once normalized).
C10_EveryOverlapUpgraded ==
    Merged =>
        \A k \in RelationalRecords :
            (\E cid \in CheckbookSide :
                /\ Normalized(cid) # <<>>
                /\ Overlapping(cid, response.contracts[k].contract_id))
            => response.contracts[k].source = "MOCS & Checkbook"

(***************************************************************************)
(* vendor_detail over contracts that carry start dates: the order of the   *)
(* merged list.                                                            *)
(***************************************************************************)
\* start dates as contracts_data.csv spells them (MM/DD/YYYY) and an issue
\* date as the transactions table holds it (YYYY-MM-DD)
DateDec2020 == <<"1", "2", "/", "0", "1", "/", "2", "0", "2", "0">>
DateJan2024 == <<"0", "1", "/", "1", "3", "/", "2", "0", "2", "4">>

\* a row of contracts_data.csv of vendor ACME with a start date
DatedRow(cid, date) ==
    [epin |-> None, contract_id |-> cid, vendor_name |-> NameAcme,
     start_date |-> date, end_date |-> None]

DatedContractRows ==
    {DatedRow(cid, date) : cid \in {IdCt1001, IdXy9},
                           date \in {DateDec2020, DateJan2024, None}}

DatedTransactionRows ==
    {[payee_name |-> NameAcme, contract_id |-> cid, issue_date |-> date] :
        cid \in {IdZz7}, date \in {IssueDate, None}}
    \cup {[payee_name |-> NameAcme, contract_id |-> IdCt1001Lower,
           issue_date |-> IssueDate]}

InitOrdering ==
    /\ MergerInit
    /\ vendors = VendorRows
    /\ solicitations = <<>>
    /\ contracts = <<>>
    /\ transactions \in SubsetsUpTo(DatedTransactionRows, MaxTransactions)
    /\ db_exists = TRUE
    /\ response = NoResponse
    /\ LoaderInit

NextOrdering ==
    \/ \E extract \in SeqsUpTo(DatedContractRows, MaxContracts) :
           load_contracts(extract)
    \/ \E raises \in BOOLEAN : vendor_detail("V1", raises)

SpecOrdering == InitOrdering /\ [][NextOrdering]_vars

\* the calendar day of a date string, as the digits YYYYMMDD
CalendarDay(date) ==
    IF date[3] = "/"
    THEN SubSeq(date, 7, 10) \o SubSeq(date, 1, 2) \o SubSeq(date, 4, 5)
    ELSE SubSeq(date, 1, 4) \o SubSeq(date, 6, 7) \o SubSeq(date, 9, 10)

\* C11: after a successful merge the list is in descending calendar order of
\* the start dates, and every record with no start date comes after every
\* record that has one.
C11_MergedListOrdering ==
    Merged =>
        \A i, j \in 1..Len(response.contracts) :
            i < j =>
                LET a == response.contracts[i].start_date
                    b == response.contracts[j].start_date
                IN /\ ~Truthy(a) => ~Truthy(b)
                   /\ (Truthy(a) /\ Truthy(b)) =>
                          ~StrLess(CalendarDay(a), CalendarDay(b))

(***************************************************************************)
(* app.py: vendor_transactions, the transactions of a vendor by payee      *)
(* name.                                                                   *)
(***************************************************************************)
\* payee_name LIKE '%' || core || '%' in DuckDB: the match is case
\* sensitive and '_' in the pattern stands for any one character
LikeContains(value, core) ==
    \E k \in 0..(Len(value) - Len(core)) :
        \A i \in 1..Len(core) : core[i] = "_" \/ value[k + i] = core[i]

\* line 1034: f"%{v_name}%"
Wildcard(v_name) == <<"%">> \o v_name \o <<"%">>

\* line 1030: len(result) == 0
NoExactMatch(result) == result = {}

\* lines 993-1058: vendor_transactions; raises tells whether a call on
\* spending.duckdb raises. LIMIT 500 is above the number of rows of the
\* model.
vendor_transactions(id, raises) ==
    /\ IF \A v \in 1..Len(vendors) : vendors[v].passport_supplier_id # id
       THEN /\ ~raises
            /\ response' = [kind |-> "vendor_transactions",
                            outcome |-> "not_found"]
       ELSE LET v_name == vendors[CHOOSE v \in 1..Len(vendors) :
                               vendors[v].passport_supplier_id = id].name
                exact == {t \in transactions : t.payee_name = v_name}
                like == {t \in transactions :
                            LikeContains(t.payee_name, v_name)}
            IN IF ~db_exists
               THEN /\ ~raises
                    /\ response' = [kind |-> "vendor_transactions",
                                    outcome |-> "no_db", vendor |-> v_name,
                                    queries |-> <<>>, transactions |-> {}]
               ELSE IF raises
               THEN response' = [kind |-> "vendor_transactions",
                                 outcome |-> "degraded", vendor |-> v_name,
                                 queries |-> <<>>, transactions |-> {}]
               ELSE IF NoExactMatch(exact)
               THEN response' =
                      [kind |-> "vendor_transactions",
                       outcome |-> "queried", vendor |-> v_name,
                       queries |-> << <<"=", v_name>>,
                                      <<"LIKE", Wildcard(v_name)>> >>,
                       transactions |-> like]
               ELSE response' =
                      [kind |-> "vendor_transactions",
                       outcome |-> "queried", vendor |-> v_name,
                       queries |-> << <<"=", v_name>> >>,
                       transactions |-> exact]
    /\ UNCHANGED <<vendors, solicitations, contracts, transactions, db_exists,
                   mergerVars, loaderVars>>

\* vendors and payees: a vendor whose name ends in a corporate suffix, the
\* same business paid under other spellings, and an unrelated vendor
NameAcmeCorp == NameAcme \o <<" ", "C", "O", "R", "P">>
NameAcmeInc == NameAcme \o <<" ", "I", "N", "C">>
NameAcmeCorpNy == NameAcmeCorp \o <<" ", "N", "Y">>
CorpVendorRows ==
    << [passport_supplier_id |-> "V1", name |-> NameAcmeCorp],
       [passport_supplier_id |-> "V2", name |-> NameBolt] >>

PayeeRows ==
    {[payee_name |-> payee, contract_id |-> cid, issue_date |-> IssueDate] :
        payee \in {NameAcmeCorp, NameAcmeInc, NameAcmeCorpNy, NameBolt},
        cid \in {IdCt1, IdZz7}}

InitCascade ==
    /\ MergerInit
    /\ vendors = CorpVendorRows
    /\ solicitations = <<>>
    /\ contracts = <<>>
    /\ transactions \in SubsetsUpTo(PayeeRows, MaxTransactions)
    /\ db_exists \in BOOLEAN
    /\ response = NoResponse
    /\ LoaderInit

NextCascade ==
    \E id \in {"V1", "V2", "V3"}, raises \in BOOLEAN :
        vendor_transactions(id, raises)

SpecCascade == InitCascade /\ [][NextCascade]_vars

\* the corporate-suffix token the serving layer knows (line 770)
CorpToken == <<" ", "C", "O", "R", "P">>

\* a name with the first occurrence of the corporate-suffix token removed
RECURSIVE StripToken(_)
StripToken(name) ==
    IF name = <<>> THEN <<>>
    ELSE IF StartsWith(name, CorpToken)
    THEN SubSeq(name, Len(CorpToken) + 1, Len(name))
    ELSE <<Head(name)>> \o StripToken(Tail(name))

Queried == response.kind = "vendor_transactions" /\ response.outcome = "queried"

ExactMatches == {t \in transactions : t.payee_name = response.vendor}

\* C13: vendor_transactions first asks for payee_name = vendor name; it
\* issues a wildcard query only when that returned no row, and at most one;
\* the wildcard is built from the vendor name with its corporate-suffix
\* token stripped; when the exact query returned rows, exactly those are
\* returned.
C13_VendorToTransactions ==
    Queried =>
        /\ Len(response.queries) \in {1, 2}
        /\ response.queries[1] = <<"=", response.vendor>>
        /\ Len(response.queries) = 2 <=> ExactMatches = {}
        /\ ExactMatches # {} => response.transactions = ExactMatches
        /\ Len(response.queries) = 2 =>
               response.queries[2]
                   = <<"LIKE", Wildcard(StripToken(response.vendor))>>

\* the part of C13 that does not concern the corporate suffix
C13_OneFallbackTier ==
    Queried =>
        /\ Len(response.queries) \in {1, 2}
        /\ response.queries[1] = <<"=", response.vendor>>
        /\ Len(response.queries) = 2 <=> ExactMatches = {}
        /\ ExactMatches # {} => response.transactions = ExactMatches
        /\ Len(response.queries) = 2 => response.queries[2][1] = "LIKE"

(***************************************************************************)
(* app.py: contract_transactions and contract_checkbook_details, the       *)
(* fiscal-year partitions a contract's spending is read from.              *)
(***************************************************************************)
DigitValue(ch) ==
    CASE ch = "0" -> 0 [] ch = "1" -> 1 [] ch = "2" -> 2 [] ch = "3" -> 3
      [] ch = "4" -> 4 [] ch = "5" -> 5 [] ch = "6" -> 6 [] ch = "7" -> 7
      [] ch = "8" -> 8 [] ch = "9" -> 9 [] OTHER -> 0

\* int() of a string of digits
RECURSIVE ToInt(_)
ToInt(digits) ==
    IF digits = <<>> THEN 0
    ELSE 10 * ToInt(SubSeq(digits, 1, Len(digits) - 1))
         + DigitValue(digits[Len(digits)])

IsLeap(y) == (y % 4 = 0 /\ y % 100 # 0) \/ y % 400 = 0

DaysIn(m, y) ==
    IF m = 2 THEN (IF IsLeap(y) THEN 29 ELSE 28)
    ELSE IF m \in {4, 6, 9, 11} THEN 30 ELSE 31

\* datetime.datetime.strptime(date_str, '%m/%d/%Y'): one or two digits of
\* month, of day, four digits of year, a day that exists; ok is FALSE where
\* strptime raises ValueError
ParseDate(date_str) ==
    LET slashes == {i \in 1..Len(date_str) : date_str[i] = "/"}
        s1 == CHOOSE i \in slashes : \A j \in slashes : i <= j
        s2 == CHOOSE i \in slashes : \A j \in slashes : j <= i
        mm == SubSeq(date_str, 1, s1 - 1)
        dd == SubSeq(date_str, s1 + 1, s2 - 1)
        yy == SubSeq(date_str, s2 + 1, Len(date_str))
        AllDigits(part) == \A i \in 1..Len(part) : part[i] \in Digits
    IN IF /\ Cardinality(slashes) = 2
          /\ Len(mm) \in {1, 2} /\ Len(dd) \in {1, 2} /\ Len(yy) = 4
          /\ AllDigits(mm) /\ AllDigits(dd) /\ AllDigits(yy)
          /\ ToInt(mm) \in 1..12
          /\ ToInt(yy) >= 1
          /\ ToInt(dd) \in 1..DaysIn(ToInt(mm), ToInt(yy))
       THEN [ok |-> TRUE, year |-> ToInt(yy), month |-> ToInt(mm),
             day |-> ToInt(dd)]
       ELSE [ok |-> FALSE, year |-> 0, month |-> 0, day |-> 0]

\* (mutant) the fiscal year turns over with August
get_fy_august(date_str) ==
    IF ~Truthy(date_str) THEN 0
    ELSE LET dt == ParseDate(date_str)
         IN IF ~dt.ok THEN 0
            ELSE IF dt.month > 7 THEN dt.year + 1 ELSE dt.year

\* lines 1085-1091 and 1453-1459: get_fy; 0 stands for None
get_fy(date_str) ==
    IF ~Truthy(date_str) THEN 0
    ELSE LET dt == ParseDate(date_str)
         IN IF ~dt.ok THEN 0
            ELSE IF dt.month >= 7 THEN dt.year + 1 ELSE dt.year

\* lines 1100-1101 and 1468-1469
current_fy(now) == IF now.month < 7 THEN now.year ELSE now.year + 1

\* lines 1107 and 1473: the last fiscal year with data
max_fy_with_data == 2025

\* lines 1103-1110 and 1471-1476: range(s, e + 1) of a contract that has a
\* start fiscal year
DatedYears(start_fy, end_fy, now) ==
    LET s == start_fy - 1
        e == IF end_fy # 0 THEN end_fy + 2 ELSE current_fy(now)
    IN s..Min(e, max_fy_with_data)

\* lines 1114-1116: range(max_fy - 5, max_fy + 1)
FallbackYears(now) ==
    LET max_fy == Min(current_fy(now), max_fy_with_data)
    IN (max_fy - 5)..max_fy

\* lines 1060-1187: contract_transactions, for the contract the lookup by
\* ctr_id found (row 0: none found); raises tells whether a call on the
\* columnar store raises. paths is what read_parquet is given: the
\* fiscal-year partitions named, or the glob over every partition.
contract_transactions(i, use_s3, now, raises) ==
    /\ i \in 0..Len(contracts)
    /\ IF i = 0
       THEN /\ ~raises
            /\ response' = [kind |-> "contract_transactions",
                            outcome |-> "not_found"]
       ELSE IF contracts[i].contract_id = None
       THEN /\ ~raises
            /\ response' = [kind |-> "contract_transactions",
                            outcome |-> "degraded", contract |-> i,
                            use_s3 |-> use_s3, now |-> now]
       ELSE IF raises
       THEN response' = [kind |-> "contract_transactions",
                         outcome |-> "degraded", contract |-> i,
                         use_s3 |-> use_s3, now |-> now]
       ELSE LET start_fy == get_fy(contracts[i].start_date)
                end_fy == get_fy(contracts[i].end_date)
            IN response' =
                 [kind |-> "contract_transactions",
                  outcome |-> "scanned", contract |-> i,
                  use_s3 |-> use_s3, now |-> now,
                  checkbook_id |-> Without(contracts[i].contract_id, {"-"}),
                  paths |->
                      IF ~use_s3 THEN [glob |-> TRUE, years |-> {}]
                      ELSE IF start_fy # 0
                      THEN [glob |-> FALSE,
                            years |-> DatedYears(start_fy, end_fy, now)]
                      ELSE [glob |-> FALSE, years |-> FallbackYears(now)]]
    /\ UNCHANGED <<vendors, solicitations, contracts, transactions, db_exists,
                   mergerVars, loaderVars>>

\* lines 1435-1532: contract_checkbook_details, in the same terms
contract_checkbook_details(i, use_s3, now, raises) ==
    /\ i \in 0..Len(contracts)
    /\ IF i = 0
       THEN /\ ~raises
            /\ response' = [kind |-> "contract_checkbook_details",
                            outcome |-> "not_found"]
       ELSE LET join_id ==
                    IF Truthy(contracts[i].normalized_contract_id)
                    THEN contracts[i].normalized_contract_id
                    ELSE IF Truthy(contracts[i].contract_id)
                    THEN Without(contracts[i].contract_id, {"-"})
                    ELSE contracts[i].normalized_contract_id
                start_fy == get_fy(contracts[i].start_date)
                end_fy == get_fy(contracts[i].end_date)
            IN IF ~Truthy(join_id)
               THEN /\ ~raises
                    /\ response' = [kind |-> "contract_checkbook_details",
                                    outcome |-> "no_id", contract |-> i,
                                    use_s3 |-> use_s3, now |-> now]
               ELSE IF raises
               THEN response' = [kind |-> "contract_checkbook_details",
                                 outcome |-> "degraded", contract |-> i,
                                 use_s3 |-> use_s3, now |-> now]
               ELSE response' =
                      [kind |-> "contract_checkbook_details",
                       outcome |-> "scanned", contract |-> i,
                       use_s3 |-> use_s3, now |-> now,
                       checkbook_id |-> join_id,
                       paths |->
                           IF start_fy # 0
                           THEN [glob |-> FALSE,
                                 years |-> DatedYears(start_fy, end_fy, now)]
                           ELSE [glob |-> FALSE,
                                 years |-> {max_fy_with_data}]]
    /\ UNCHANGED <<vendors, solicitations, contracts, transactions, db_exists,
                   mergerVars, loaderVars>>

\* start and end dates of the extracts: the documented example (start in
\* fiscal year 2022, end in fiscal year 2023), the last day of fiscal year
\* 2021, an end in fiscal year 2026, a date in another format, and none
DateJul2021 == <<"0", "7", "/", "0", "1", "/", "2", "0", "2", "1">>
DateJun2021 == <<"0", "6", "/", "3", "0", "/", "2", "0", "2", "1">>
DateIso2021 == <<"2", "0", "2", "1", "-", "0", "7", "-", "0", "1">>
DateJun2023 == <<"0", "6", "/", "3", "0", "/", "2", "0", "2", "3">>
DateDec2025 == <<"1", "2", "/", "3", "1", "/", "2", "0", "2", "5">>

WindowRow(cid, sd, ed) ==
    [epin |-> None, contract_id |-> cid, vendor_name |-> NameAcme,
     start_date |-> sd, end_date |-> ed]

WindowContractRows ==
    { WindowRow(IdCt1001, DateJul2021, DateJun2023),
      WindowRow(IdCt1001, DateJul2021, DateDec2025),
      WindowRow(IdCt1001, DateJul2021, None),
      WindowRow(IdCt1001, DateJun2021, DateJun2023),
      WindowRow(IdCt1001, DateIso2021, DateJun2023),
      WindowRow(IdCt1001, None, None),
      WindowRow(None, DateJul2021, DateJun2023) }

\* datetime.now(): June 2024 (fiscal year 2024), July 2024 (2025) and
\* January 2026 (2026)
Nows == {[year |-> 2024, month |-> 6], [year |-> 2024, month |-> 7],
         [year |-> 2026, month |-> 1]}

NextWindow ==
    \/ \E extract \in SeqsUpTo(WindowContractRows, MaxContracts) :
           load_contracts(extract)
    \/ \E i \in 0..MaxContracts, use_s3 \in BOOLEAN, now \in Nows,
          raises \in BOOLEAN : contract_transactions(i, use_s3, now, raises)
    \/ \E i \in 0..MaxContracts, use_s3 \in BOOLEAN, now \in Nows,
          raises \in BOOLEAN :
           contract_checkbook_details(i, use_s3, now, raises)

SpecWindow == Init /\ [][NextWindow]_vars

(***************************************************************************)
(* Claims about the partition-pruning policy.                              *)
(***************************************************************************)
Scanned ==
    /\ response.kind \in {"contract_transactions", "contract_checkbook_details"}
    /\ response.outcome = "scanned"

\* the fiscal year of a calendar day by the July-1 rule
FiscalYear(dt) == IF dt.month >= 7 THEN dt.year + 1 ELSE dt.year

Parseable(date_str) == Truthy(date_str) /\ ParseDate(date_str).ok

\* the window the policy prescribes for a contract with a start date
PolicyWindow(contract, now) ==
    LET start_fy == FiscalYear(ParseDate(contract.start_date))
        upper == IF Parseable(contract.end_date)
                 THEN FiscalYear(ParseDate(contract.end_date)) + 2
                 ELSE FiscalYear(now)
    IN {y \in (start_fy - 1)..2030 : y <= upper /\ y <= max_fy_with_data}

C15_NoStartDateFallback ==
    (Scanned /\ ~Parseable(contracts[response.contract].start_date)) =>
        LET newest == Min(FiscalYear(response.now), max_fy_with_data)
        IN /\ ~response.paths.glob
           /\ response.paths.years = (newest - 4)..newest

\* C16: whatever the storage mode, the partitions read are named fiscal-year
\* partitions inside the window of the contract, never every partition of
\* the store.
C16_ScanAlwaysBounded ==
    Scanned =>
        /\ ~response.paths.glob
        /\ Parseable(contracts[response.contract].start_date) =>
               response.paths.years
                   \subseteq PolicyWindow(contracts[response.contract],
                                          response.now)

(***************************************************************************)
(* app.py: contract_detail when the relational store has no such contract: *)
(* the Checkbook fallback. Failures of the columnar store.                 *)
(***************************************************************************)
\* lines 1354-1394: contract_detail for an id that is no ctr_id of table
\* contracts; raises tells whether a call on spending.duckdb raises
contract_detail_fallback(id, raises) ==
    /\ IF ~db_exists
       THEN /\ ~raises
            /\ response' = [kind |-> "contract_detail_fallback",
                            status |-> 404, outcome |-> "no_db"]
       ELSE IF raises
       THEN response' = [kind |-> "contract_detail_fallback",
                         status |-> 404, outcome |-> "degraded"]
       ELSE IF Truthy(MinIssueDate(id))
       THEN response' = [kind |-> "contract_detail_fallback",
                         status |-> 200, outcome |-> "checkbook",
                         contract |-> [ctr_id |-> id, contract_id |-> id,
                                       start_date |-> MinIssueDate(id),
                                       normalized_epin |-> None,
                                       source |-> "Checkbook"],
                         solicitation |-> 0,
                         solicitation_contract_count |-> 0]
       ELSE response' = [kind |-> "contract_detail_fallback",
                         status |-> 404, outcome |-> "not_found"]
    /\ UNCHANGED <<vendors, solicitations, contracts, transactions, db_exists,
                   mergerVars, loaderVars>>

\* the serving layer over a store whose columnar side may fail
NextDegrade ==
    \/ \E extract \in SeqsUpTo({ContractIdRow(cid, NameAcme) :
                                  cid \in {IdCt1001, IdXy9}}, MaxContracts) :
           load_contracts(extract)
    \/ \E id \in {"V1", "V2"}, raises \in BOOLEAN : vendor_detail(id, raises)
    \/ \E id \in {"V1", "V2"}, raises \in BOOLEAN :
           vendor_transactions(id, raises)
    \/ \E i \in 0..MaxContracts, use_s3 \in BOOLEAN, raises \in BOOLEAN :
           contract_transactions(i, use_s3, [year |-> 2024, month |-> 6],
                                 raises)
    \/ \E id \in {IdCt1, IdZz7}, raises \in BOOLEAN :
           contract_detail_fallback(id, raises)

SpecDegrade == InitVendors /\ [][NextDegrade]_vars

\* an answer that reports a failure to the caller
Propagated == "status" \in DOMAIN response /\ response.status = 500

Degraded == "outcome" \in DOMAIN response /\ response.outcome = "degraded"

\* C12: a failure of the columnar store during vendor_detail,
\* vendor_transactions, contract_transactions or the contract_detail fallback
\* is not passed on to the caller; vendor_detail then lists exactly the
\* relational contracts of the vendor, each tagged 'MOCS', with no synthetic
\* record and no 'MOCS & Checkbook' tag of the merge that was under way.
C12_DegradeToRelationalOnly ==
    /\ ~Propagated
    /\ (Degraded /\ response.kind = "vendor_detail") =>
          /\ [k \in 1..Len(response.contracts) |-> response.contracts[k].row]
                 = VendorContracts(response.vendor)
          /\ \A k \in 1..Len(response.contracts) :
                 /\ response.contracts[k].source = "MOCS"
                 /\ response.contracts[k].contract_id
                        = contracts[response.contracts[k].row].contract_id
    /\ (Degraded /\ response.kind = "vendor_transactions") =>
          response.transactions = {}
    /\ (Degraded /\ response.kind = "contract_detail_fallback") =>
          response.status = 404

\* the merge failed after a transaction-side id had upgraded a relational
\* contract and another had produced a synthetic record
C12_Witness ==
    /\ Degraded
    /\ response.kind = "vendor_detail"
    /\ response.contracts # <<>>
    /\ \E cid \in Range(response.cb_rows) :
          \E k \in 1..Len(response.contracts) :
              Overlapping(cid, response.contracts[k].contract_id)
    /\ \E cid \in Range(response.cb_rows) :
          /\ Truthy(cid)
          /\ \A k \in 1..Len(response.contracts) :
                 ~Overlapping(cid, response.contracts[k].contract_id)

(***************************************************************************)
(* build_database.py: the Bulk Loader's other tables and the Entity        *)
(* Matcher.                                                                *)
(***************************************************************************)
\* (mutant) the name is not put in upper case before it is stripped
clean_name_cased(name) ==
    IF ~Truthy(name) THEN <<>>
    ELSE SelectSeq(name, LAMBDA ch : ch \in UpperLetters \cup Digits)

\* lines 273-276
clean_name(name) == IF ~Truthy(name) THEN <<>> ELSE StripNonAlnum(name)

\* INSERT OR IGNORE INTO a table whose TEXT PRIMARY KEY is column key: a row
\* whose key is already there is dropped; '' is a key like any other and a
\* NULL key conflicts with nothing
RECURSIVE InsertOrIgnore(_, _, _)
InsertOrIgnore(table, rows, key) ==
    IF rows = <<>> THEN table
    ELSE LET row == Head(rows)
             dup == row[key] # None
                    /\ \E i \in 1..Len(table) : table[i][key] = row[key]
         IN InsertOrIgnore(IF dup THEN table ELSE Append(table, row),
                           Tail(rows), key)

\* lines 278-302: load_vendors, for one extract (the cells PASSPort
\* Supplier-ID and Vendor Name of each row)
load_vendors(extract) ==
    /\ Len(vendors) + Len(extract) <= MaxVendors
    /\ vendors' = InsertOrIgnore(vendors, extract, "passport_supplier_id")
    /\ response' = NoResponse
    /\ UNCHANGED <<solicitations, contracts, transactions, db_exists,
                   mergerVars, loaderVars>>

\* lines 394-411: the rows load_doing_business makes of the cells
\* organization_name
EntityRows(extract) ==
    [i \in 1..Len(extract) |->
        [organization_name |-> extract[i],
         normalized_name |-> clean_name(extract[i]),
         matched_vendor_id |-> None,
         match_score |-> None]]

\* lines 391-433: load_doing_business, for one extract; mocs_entities has no
\* key and the statement is a plain INSERT
load_doing_business(extract) ==
    /\ Len(mocs_entities) + Len(extract) <= MaxEntities
    /\ mocs_entities' = mocs_entities \o EntityRows(extract)
    /\ response' = NoResponse
    /\ UNCHANGED <<vendors, solicitations, contracts, transactions, db_exists,
                   mergerVars, crol, match_log>>

\* a row of crol_data.csv, of which the cells RequestID and PIN matter
NoticeRow(id, pin) == [RequestID |-> id, PIN |-> pin]

\* lines 545-611: load_crol, for one extract of a crol_data.csv that is
\* there; every row is handed to INSERT OR IGNORE as it is read
load_crol(extract) ==
    /\ Len(crol) + Len(extract) <= MaxNotices
    /\ crol' = InsertOrIgnore(crol, extract, "RequestID")
    /\ response' = NoResponse
    /\ UNCHANGED <<vendors, solicitations, contracts, transactions, db_exists,
                   mergerVars, mocs_entities, match_log>>

\* match_score 1.0
ScoreExact == <<"1", ".", "0">>

\* line 521: vendor_map = {clean_name(v[1]): v[0] for v in vendors}; of the
\* vendors of one key the last, in rowid order, stays; 0 when the key is not
\* in the map
VendorMap(key) ==
    LET same == {v \in 1..Len(vendors) : clean_name(vendors[v].name) = key}
    IN IF same = {} THEN 0 ELSE CHOOSE v \in same : \A w \in same : w <= v

\* (mutant) only the registrants not matched yet are looked at
Considered_unmatched(row) == row.matched_vendor_id = None

\* line 524: SELECT rowid, organization_name, normalized_name FROM
\* mocs_entities, every row
Considered(row) == TRUE

\* lines 513-543: match_entities_to_vendors
match_entities_to_vendors ==
    /\ Len(match_log) < MaxMatcherRuns
    /\ mocs_entities' =
           [i \in 1..Len(mocs_entities) |->
               LET row == mocs_entities[i]
                   v == VendorMap(row.normalized_name)
               IN IF Considered(row) /\ v # 0
                  THEN [row EXCEPT
                           !.matched_vendor_id = vendors[v].passport_supplier_id,
                           !.match_score = ScoreExact]
                  ELSE row]
    /\ match_log' = Append(match_log, [vendors |-> Len(vendors),
                                       entities |-> Len(mocs_entities)])
    /\ UNCHANGED <<vendors, solicitations, contracts, transactions, db_exists,
                   response, mergerVars, crol>>

\* init_db on a new file: every table is empty
InitLoader ==
    /\ MergerInit
    /\ vendors = <<>>
    /\ solicitations = <<>>
    /\ contracts = <<>>
    /\ transactions = {}
    /\ db_exists = TRUE
    /\ response = NoResponse
    /\ LoaderInit

\* vendors and registrants: one business under three spellings, and others
IdV1 == <<"V", "1">>
IdV2 == <<"V", "2">>
IdV3 == <<"V", "3">>
NameAcmeDotted == <<"A", ".", "c", ".", "m", ".", "e">>
NameAcmeMixed == <<"A", "c", "m", "e">>
NameZeta == <<"Z", "E", "T", "A">>

MatcherVendorRows ==
    { [passport_supplier_id |-> IdV1, name |-> NameAcme],
      [passport_supplier_id |-> IdV2, name |-> NameAcmeDotted],
      [passport_supplier_id |-> IdV3, name |-> NameBolt] }

NextMatcher ==
    \/ \E extract \in SeqsUpTo(MatcherVendorRows, MaxVendors) :
           load_vendors(extract)
    \/ \E extract \in SeqsUpTo({NameAcmeMixed, NameZeta, <<>>}, MaxEntities) :
           load_doing_business(extract)
    \/ match_entities_to_vendors

SpecMatcher == InitLoader /\ [][NextMatcher]_vars

\* extracts of the five entity kinds: a row with its natural key and a row
\* whose key cell is empty or missing
IdR1 == <<"R", "1">>

LoaderVendorRows ==
    { [passport_supplier_id |-> IdV1, name |-> NameAcme],
      [passport_supplier_id |-> <<>>, name |-> NameBolt] }

PinValid == <<"8", "5", "8", "2", "6", "Y", "1", "2", "5", "1">>

LoaderNoticeRows == {NoticeRow(IdR1, PinValid), NoticeRow(None, PinValid)}

NextLoader ==
    \/ \E extract \in SeqsUpTo(LoaderVendorRows, MaxVendors) :
           load_vendors(extract)
    \/ \E extract \in SeqsUpTo({EpinBase, <<>>}, MaxSolicitations) :
           load_solicitations(extract)
    \/ \E extract \in SeqsUpTo({EpinRow(EpinBase), EpinRow(EpinOther)},
                              MaxContracts) :
           load_contracts(extract)
    \/ \E extract \in SeqsUpTo({NameAcmeMixed, NameZeta}, MaxEntities) :
           load_doing_business(extract)
    \/ \E extract \in SeqsUpTo(LoaderNoticeRows, MaxNotices) :
           load_crol(extract)

SpecLoader == InitLoader /\ [][NextLoader]_vars

(***************************************************************************)
(* Claims about the Entity Matcher.                                        *)
(***************************************************************************)
\* the canonical name of an organization or a vendor
CanonicalName(raw) == IF ~Truthy(raw) THEN <<>> ELSE Canonical(raw)

\* the vendors whose canonical name is that of a registrant
SameName(row) ==
    {v \in 1..Len(vendors) :
        CanonicalName(vendors[v].name) = CanonicalName(row.organization_name)}

\* the matcher has run over the tables as they are now
MatchedCurrent ==
    /\ match_log # <<>>
    /\ match_log[Len(match_log)]
           = [vendors |-> Len(vendors), entities |-> Len(mocs_entities)]

\* C17: after the matcher has run, a registrant has matched_vendor_id set
\* exactly when its canonical name is the canonical name of some vendor; the
\* id recorded is that of such a vendor and the score is 1.0; every other
\* registrant has no id and no score.
C17_EntityMatcherResult ==
    MatchedCurrent =>
        \A i \in 1..Len(mocs_entities) :
            LET row == mocs_entities[i]
            IN /\ row.matched_vendor_id # None <=> SameName(row) # {}
               /\ SameName(row) # {} =>
                      /\ \E v \in SameName(row) :
                             row.matched_vendor_id
                                 = vendors[v].passport_supplier_id
                      /\ row.match_score = ScoreExact
               /\ SameName(row) = {} => row.match_score = None

\* registrant 'Acme' is matched to a vendor spelled otherwise, and another
\* registrant stays unmatched
C17_Witness ==
    /\ MatchedCurrent
    /\ \E i \in 1..Len(mocs_entities) :
          /\ mocs_entities[i].organization_name = NameAcmeMixed
          /\ mocs_entities[i].matched_vendor_id \in {IdV1, IdV2}
          /\ mocs_entities[i].match_score = ScoreExact
    /\ \E i \in 1..Len(mocs_entities) :
          /\ mocs_entities[i].organization_name = NameZeta
          /\ mocs_entities[i].matched_vendor_id = None

\* the matches computed from nothing but the vendors as they are now
FromScratch ==
    [i \in 1..Len(mocs_entities) |->
        LET row == mocs_entities[i]
            same == SameName(row)
        IN [organization_name |-> row.organization_name,
            normalized_name |-> row.normalized_name,
            matched_vendor_id |->
                IF same = {} THEN None
                ELSE vendors[CHOOSE v \in same : \A w \in same : w <= v]
                         .passport_supplier_id,
            match_score |-> IF same = {} THEN None ELSE ScoreExact]]

AllIn(rows, table) == \A i \in 1..Len(rows) : \E j \in 1..Len(table) : table[j] = rows[i]

\* the organization names of mocs_entities
EntityNames == [i \in 1..Len(mocs_entities) |-> mocs_entities[i].organization_name]

\* C19: loading an extract whose rows the store already holds, as it does
\* after a first load of that extract, leaves the row count of the table as
\* it was, for vendors, solicitations, contracts, registrants and notices.
C19_IdempotentLoad ==
    [][ /\ \A extract \in SeqsUpTo(LoaderVendorRows, MaxVendors) :
              ( /\ vendors' = InsertOrIgnore(vendors, extract,
                                             "passport_supplier_id")
                /\ AllIn(extract, vendors) )
              => Len(vendors') = Len(vendors)
        /\ \A extract \in SeqsUpTo({EpinBase, <<>>}, MaxSolicitations) :
              ( /\ solicitations' # solicitations
                /\ solicitations'
                       = InsertSolicitations(solicitations,
                                             SolicitationRows(extract))
                /\ AllIn(SolicitationRows(extract), solicitations) )
              => Len(solicitations') = Len(solicitations)
        /\ \A extract \in SeqsUpTo({EpinRow(EpinBase), EpinRow(EpinOther)},
                                  MaxContracts) :
              ( /\ contracts' = contracts \o ContractRows(extract)
                /\ AllIn(ContractRows(extract), contracts) )
              => Len(contracts') = Len(contracts)
        /\ \A extract \in SeqsUpTo({NameAcmeMixed, NameZeta}, MaxEntities) :
              ( /\ mocs_entities' = mocs_entities \o EntityRows(extract)
                /\ AllIn(extract, EntityNames) )
              => Len(mocs_entities') = Len(mocs_entities)
        /\ \A extract \in SeqsUpTo(LoaderNoticeRows, MaxNotices) :
              ( /\ crol' # crol
                /\ AllIn(extract, crol) )
              => Len(crol') = Len(crol) ]_vars

\* C20: no row of vendors, solicitations or crol has a missing or empty
\* natural key: the loader skipped every such row of the extracts.
C20_MissingKeySkipped ==
    /\ \A i \in 1..Len(vendors) : Truthy(vendors[i].passport_supplier_id)
    /\ \A i \in 1..Len(solicitations) : Truthy(solicitations[i].epin)
    /\ \A i \in 1..Len(crol) : Truthy(crol[i].RequestID)

(***************************************************************************)
(* import_crol.py and build_database.py: the two loaders of the public     *)
(* notices.                                                                *)
(***************************************************************************)
\* str.lower(), one character
Lower(ch) ==
    IF \E c \in DOMAIN UpperOf : UpperOf[c] = ch
    THEN CHOOSE c \in DOMAIN UpperOf : UpperOf[c] = ch
    ELSE ch

\* str.lower()
LowerStr(str) == [i \in 1..Len(str) |-> Lower(str[i])]

\* str.strip()
RECURSIVE Strip(_)
Strip(str) ==
    IF str = <<>> THEN str
    ELSE IF Head(str) = " " THEN Strip(Tail(str))
    ELSE IF str[Len(str)] = " " THEN Strip(SubSeq(str, 1, Len(str) - 1))
    ELSE str

\* import_crol.py line 106
Placeholders ==
    { <<"N", "O", "P", "I", "N", "F", "O", "U", "N", "D">>,
      <<"S", "E", "E", " ", "B", "E", "L", "O", "W">>,
      <<"L", "I", "N", "E", " ", "1", "7", " ", "B", "E", "L", "O", "W">>,
      <<"S", "E", "E", " ", "L", "I", "N", "E", " ", "1", "7", " ",
        "B", "E", "L", "O", "W">>,
      <<"L", "I", "N", "E", " ", "1", "7">> }

\* import_crol.py lines 98-113: the row is skipped
PinSkipped(cell) ==
    LET pin == Strip(cell)
    IN \/ pin = <<>>
       \/ Len(pin) < 8
       \/ UpperStr(pin) \in Placeholders
       \/ Without(Without(pin, {"0"}), {"."}) = <<>>
       \/ StartsWith(LowerStr(pin), <<"s", "e", "e", " ">>)
       \/ StartsWith(LowerStr(pin), <<"l", "i", "n", "e", " ">>)

\* import_crol.py lines 28-83: create_crol_table drops the table and makes
\* it anew
create_crol_table ==
    /\ crol # <<>>
    /\ crol' = <<>>
    /\ response' = NoResponse
    /\ UNCHANGED <<vendors, solicitations, contracts, transactions, db_exists,
                   mergerVars, mocs_entities, match_log>>

\* import_crol.py lines 86-167: load_crol, for one extract
import_crol_load_crol(extract) ==
    /\ Len(crol) + Len(extract) <= MaxNotices
    /\ crol' = InsertOrIgnore(crol,
                              SelectSeq(extract,
                                        LAMBDA row : ~PinSkipped(row.PIN)),
                              "RequestID")
    /\ response' = NoResponse
    /\ UNCHANGED <<vendors, solicitations, contracts, transactions, db_exists,
                   mergerVars, mocs_entities, match_log>>

\* the PIN cells of the extracts: the examples of the specification, eight
\* zeros, eight hyphens and a lower-case remark
IdR2 == <<"R", "2">>
PinEmpty == <<>>
PinZeros4 == <<"0", "0", "0", "0">>
PinSeeBelow == <<"S", "E", "E", " ", "B", "E", "L", "O", "W">>
PinAB == <<"A", "B">>
PinZeros8 == <<"0", "0", "0", "0", "0", "0", "0", "0">>
PinHyphens == <<"-", "-", "-", "-", "-", "-", "-", "-">>
PinSeeNote == <<"s", "e", "e", " ", "n", "o", "t", "e", "s">>

Pins ==
    {PinEmpty, PinZeros4, PinSeeBelow, PinAB, PinValid, PinZeros8,
     PinHyphens, PinSeeNote}

PinNoticeRows == {NoticeRow(id, pin) : id \in {IdR1, IdR2}, pin \in Pins}

NextNotices ==
    \/ \E extract \in SeqsUpTo(PinNoticeRows, MaxNotices) :
           load_crol(extract)
    \/ \E extract \in SeqsUpTo(PinNoticeRows, MaxNotices) :
           import_crol_load_crol(extract)
    \/ create_crol_table

SpecNotices == InitLoader /\ [][NextNotices]_vars

(***************************************************************************)
(* Claims about the public notices.                                        *)
(***************************************************************************)
\* a PIN that is empty, shorter than 8 characters, a known placeholder, or
\* made of zeros and punctuation only
InvalidPin(pin) ==
    \/ ~Truthy(pin)
    \/ Len(pin) < 8
    \/ UpperStr(pin) \in Placeholders
    \/ \A k \in 1..Len(pin) :
          pin[k] \notin (UpperLetters \cup DOMAIN UpperOf \cup Digits) \ {"0"}

\* C21: after any load of public notices, by either loader, no stored notice
\* has an invalid PIN: the rows with such a PIN were dropped before the
\* insertion.
C21_InvalidPinRejected ==
    \A i \in 1..Len(crol) : ~InvalidPin(crol[i].PIN)

(***************************************************************************)
(* build_database.py: the canonicalizers as functions of any raw           *)
(* identifier.                                                             *)
(***************************************************************************)
MaxIdLen == 3

\* raw identifiers: None, '' and the strings over a lower-case letter, an
\* upper-case letter, a digit and two separators
RawIds ==
    {None, <<>>} \cup SeqsUpTo({"a", "B", "1", "-", " "}, MaxIdLen)

\* lines 255-258 and 260-262: one call of a canonicalizer
Canonicalizer(fn, raw) ==
    IF fn = "normalize_contract_id" THEN normalize_contract_id(raw)
    ELSE normalize_epin(raw)

\* a canonicalizer is called on a raw identifier
canonicalize(fn, raw) ==
    /\ response' = [kind |-> fn, raw |-> raw, key |-> Canonicalizer(fn, raw),
                    again |-> FALSE]
    /\ UNCHANGED <<vendors, solicitations, contracts, transactions, db_exists,
                   mergerVars, loaderVars>>

\* the canonicalizer is called on what it returned
canonicalize_again ==
    /\ response.kind \in {"normalize_contract_id", "normalize_epin"}
    /\ ~response.again
    /\ response' = [kind |-> response.kind, raw |-> response.key,
                    key |-> Canonicalizer(response.kind, response.key),
                    again |-> TRUE]
    /\ UNCHANGED <<vendors, solicitations, contracts, transactions, db_exists,
                   mergerVars, loaderVars>>

NextCanon ==
    \/ \E fn \in {"normalize_contract_id", "normalize_epin"} :
           \E raw \in RawIds : canonicalize(fn, raw)
    \/ canonicalize_again

SpecCanon == InitLoader /\ [][NextCanon]_vars

\* C22: a canonicalizer called on its own result returns that result, for
\* every raw identifier, None, '' and strings of separators included; and it
\* returns None for None and for ''.
C22_CanonicalizeIdempotent ==
    response.kind \in {"normalize_contract_id", "normalize_epin"} =>
        /\ response.again => response.key = response.raw
        /\ response.raw \in {None, <<>>} => response.key = None

(***************************************************************************)
(* Further claims about the Transactional Store Merger.                    *)
(***************************************************************************)
\* C23: a run that ends on a non-200 answer, of the count check or of a
\* batch, ends with a non-zero exit status, and has left the persisted
\* progress as it found it and written no partition file.
C23_FailureReported ==
    \A r \in Procs :
        (Ended(r, "abort_check") \/ Ended(r, "abort_batch")) =>
            /\ exit_status[r] # 0
            /\ progress_file = pre_run[r]
            /\ \A p \in DOMAIN parquet_files :
                   parquet_files[p].writer # run_id[r]

\* app.py lines 1125-1151, local mode: read_parquet over the glob
\* data_pipeline/parquet/*/* opens every file the partition directories hold
\* at that moment
read_parquet_glob ==
    /\ response' = [kind |-> "read_parquet",
                    files |-> {[path |-> p,
                                complete |-> parquet_files[p].complete] :
                                  p \in DOMAIN parquet_files}]
    /\ UNCHANGED <<vendors, solicitations, contracts, transactions, db_exists,
                   mergerVars, loaderVars>>

\* a resolver reads the partitions while the runs of daily_update go on
NextReaders ==
    \/ NextSerialized
    \/ read_parquet_glob

SpecReaders == Init /\ [][NextReaders]_vars

\* C24: every partition file a resolver read observes is complete, however
\* the read is interleaved with a run of daily_update.
C24_NoHalfWrittenPartition ==
    response.kind = "read_parquet" =>
        \A f \in response.files : f.complete

\* a running process executes its next statement
SpecSerializedFair == SpecSerialized /\ WF_vars(Step(Scheduled))

\* the run has left the download loop by its condition
PastLoop(r) ==
    \/ pc[r] \in {"save_csv", "convert", "converting", "commit"}
    \/ Ended(r, "committed") \/ Ended(r, "abort_convert")
    \/ Ended(r, "abort_save")

\* ceil(d / BatchLimit)
Batches(d) == (d + BatchLimit - 1) \div BatchLimit

\* the requests are those of a delta last + 1 .. total cut into pages
LoopShape(reqs, last, total) ==
    /\ Len(reqs) = Batches(total - last)
    /\ \A i \in 1..Len(reqs) : 1 <= reqs[i][2] /\ reqs[i][2] <= BatchLimit
    /\ reqs[1][1] = last + 1
    /\ \A i \in 1..(Len(reqs) - 1) : reqs[i + 1][1] = reqs[i][1] + reqs[i][2]
    /\ reqs[Len(reqs)][1] + reqs[Len(reqs)][2] - 1 = total

\* C25: a run whose fetches all answered 200 has issued ceil(d / 20000)
\* requests for a delta of d >= 1 records, each for 1 to 20000 records, the
\* ranges consecutive from watermark + 1 to the remote total; and a run that
\* is in the download loop leaves it.
C25_DownloadLoopShape ==
    /\ [](\A r \in Procs :
             PastLoop(r) =>
                 /\ total_records_remote[r] - last_count[r] >= 1
                 /\ LoopShape(requests[r], last_count[r],
                              total_records_remote[r]))
    /\ \A r \in Procs : (pc[r] = "download") ~> (pc[r] # "download")

\* a delta of 20001 records was fetched by two requests, of 20000 and of 1
C25_Witness ==
    \E r \in Procs :
        /\ pc[r] = "save_csv"
        /\ total_records_remote[r] - last_count[r] = BatchLimit + 1
        /\ requests[r] = <<<<1, BatchLimit>>, <<BatchLimit + 1, 1>>>>

\* C26: after a run that committed, the persisted last_record_downloaded and
\* total_records are the remote total that run observed, and chunks_completed
\* is the list the run found with one entry more at its end, the path of the
\* batch file the run wrote.
C26_CommitEffect ==
    \A r \in Procs :
        Ended(r, "committed") =>
            /\ progress_file.last_record_downloaded = total_records_remote[r]
            /\ progress_file.total_records = total_records_remote[r]
            /\ progress_file.chunks_completed
                   = Append(pre_run[r].chunks_completed, chunk_path(r))
            /\ chunk_path(r) \in DOMAIN chunk_files
            /\ chunk_files[chunk_path(r)].writer = run_id[r]

\* a second run commits on top of the batch file of a first one
C26_Witness ==
    \E r \in Procs :
        /\ Ended(r, "committed")
        /\ Len(pre_run[r].chunks_completed) = 1
        /\ pre_run[r].last_record_downloaded > 0
        /\ Len(progress_file.chunks_completed) = 2

\* the step is the commit of a run
Commits(r) ==
    pc[r] = "commit" /\ pc'[r] = "done" /\ outcome'[r] = "committed"

\* C27: over serialized runs, whatever totals the feed reports, no step
\* lowers the persisted last_record_downloaded, and a step raises it exactly
\* when it is the commit of a run.
C27_WatermarkMonotonic ==
    [][ /\ progress_file'.last_record_downloaded
               >= progress_file.last_record_downloaded
        /\ (\E r \in Procs : Commits(r))
               <=> progress_file'.last_record_downloaded
                       > progress_file.last_record_downloaded ]_vars

\* after a committed run, a run finds a remote total below the watermark
C27_Witness ==
    \E r \in Procs :
        /\ Ended(r, "noop")
        /\ total_records_remote[r] < last_count[r]
        /\ progress_file.last_record_downloaded = last_count[r]
        /\ Len(progress_file.chunks_completed) = 1

\* the record ranges start-end the names of the committed batch files carry
CommittedRanges ==
    [i \in 1..Len(progress_file.chunks_completed) |->
        <<progress_file.chunks_completed[i][2],
          progress_file.chunks_completed[i][3]>>]

\* C30: over serialized runs, the record ranges named by the batch files of
\* chunks_completed are non-empty and pairwise disjoint, each starts at the
\* watermark committed before it plus one, and together they are exactly the
\* offsets from the initial watermark + 1 to the persisted watermark.
C30_CommittedRangesTile ==
    /\ \A i \in 1..Len(CommittedRanges) :
          CommittedRanges[i][1] <= CommittedRanges[i][2]
    /\ \A i, j \in 1..Len(CommittedRanges) :
          i # j => ~Overlap(<<CommittedRanges[i]>>, <<CommittedRanges[j]>>)
    /\ Tiles(CommittedRanges, DefaultProgress.last_record_downloaded + 1,
             progress_file.last_record_downloaded)

\* two runs have committed, the second a delta that starts above offset 1
C30_Witness ==
    /\ Len(CommittedRanges) = 2
    /\ CommittedRanges[2][1] > 1
    /\ progress_file.last_record_downloaded = BatchLimit + 1

(***************************************************************************)
(* Further claims about the Cross-Reference Resolver.                      *)
(***************************************************************************)
\* the contracts contract_detail resolves to solicitation j
ResolvingTo(j) ==
    {i \in 1..Len(contracts) : LinkedSolicitation(contracts[i]).solicitation = j}

\* C28: a contract that contract_detail resolves to a solicitation, by the
\* exact key or by the first ten characters, is among the resulting
\* contracts solicitation_detail lists for that solicitation, and is counted
\* among them by contract_detail itself.
C28_ForwardImpliesReverse ==
    /\ (response.kind = "solicitation_detail" /\ response.status = 200) =>
           ResolvingTo(response.solicitation) \subseteq Range(response.contracts)
    /\ (response.kind = "contract_detail" /\ response.solicitation # 0) =>
           /\ response.contract
                  \in Range(ContractsLike(
                          solicitations[response.solicitation].normalized_epin))
           /\ response.solicitation_contract_count >= 1

\* solicitation ABC123XYZ9 lists a contract that resolves to it by the first
\* ten characters and another one that resolves, by its exact key, to the
\* solicitation ABC123XYZ9001
C28_Witness ==
    /\ response.kind = "solicitation_detail"
    /\ response.status = 200
    /\ solicitations[response.solicitation].epin = EpinBase
    /\ \E i \in ResolvingTo(response.solicitation) :
          Len(contracts[i].normalized_epin) = 13
    /\ \E i \in Range(response.contracts) :
          i \notin ResolvingTo(response.solicitation)

\* the transaction-side ids that overlap no relational contract of the
\* vendor shown
Unmatched ==
    {cid \in CheckbookSide :
        \A i \in Range(VendorContracts(response.vendor)) :
            ~Overlapping(cid, contracts[i].contract_id)}

\* C29: the merged list holds every relational contract of the vendor
\* exactly once, one synthetic record tagged 'Checkbook' for each distinct
\* non-empty transaction-side id that matched no relational contract, and
\* nothing else.
C29_MergeConservation ==
    Merged =>
        /\ \A i \in Range(VendorContracts(response.vendor)) :
              Cardinality({k \in 1..Len(response.contracts) :
                              response.contracts[k].row = i}) = 1
        /\ \A cid \in Unmatched :
              Cardinality({k \in SyntheticRecords :
                              /\ response.contracts[k].contract_id = cid
                              /\ response.contracts[k].source = "Checkbook"}) = 1
        /\ Len(response.contracts)
               = Len(VendorContracts(response.vendor)) + Cardinality(Unmatched)

\* two relational contracts, one of them without transactions; one
\* transaction-side id that is part of a relational id and gives no record,
\* and one that gives a synthetic record
C29_Witness ==
    /\ Merged
    /\ Len(VendorContracts(response.vendor)) = 2
    /\ Cardinality(CheckbookSide) = 2
    /\ Cardinality(Unmatched) = 1
    /\ Len(response.contracts) = 3
    /\ \E cid \in CheckbookSide \ Unmatched :
          \A k \in RelationalRecords :
              Normalized(cid) # Normalized(response.contracts[k].contract_id)
    /\ \E k \in RelationalRecords : response.contracts[k].source = "MOCS"
====
